---- MODULE Spec2Model ----
(***************************************************************************)
(* A model of the SharePoint connector: the transfer engine               *)
(* (SharePointScraper.download_document, download_and_ingest_document and  *)
(* the script's UserLevelSharePointScraper.download_and_ingest_document),  *)
(* the batch orchestrator (bulk_download, bulk_download_and_ingest) and    *)
(* the tree enumerator (get_documents / get_documents_graph).              *)
(***************************************************************************)
EXTENDS Integers, Sequences, FiniteSets, TLC

(***************************************************************************)
(* Bounds and program constants                                            *)
(***************************************************************************)
\* longest descriptor list handed to a batch operation
MaxDocs == 3

\* scraper.py:299 and sharepoint_doc_scraper.py:673
max_retries == 3

\* names the remote store gives to files
DocNames == {"a.pdf", "b.pdf"}

\* HTTP statuses the content endpoint answers with
Statuses == {200, 204, 401, 403, 404, 500}

\* the answer that is no response: requests.get raised a requests.RequestException
NetExc == 0
Answers == Statuses \cup {NetExc}

\* How a descriptor locates its content:
\*   "ids"    no download_url, drive_id and id present
\*   "noids"  no download_url, drive_id or id missing
\*   "url"    a download_url is stored (a pre-authorized URL)
\*   "marked" a download_url whose text contains '@microsoft.graph.downloadUrl'
Sources == {"ids", "noids", "url", "marked"}

\* A document descriptor, reduced to the keys the transfer engine branches on.
\* Descriptors are built by the enumerator (scraper.py:227-241) or reloaded from
\* its snapshot, so the keys 'name' and 'safe_name' are always present.
Descriptors == [name : DocNames, src : Sources]

\* descriptors of a batch (as produced by the enumerator or loaded from JSON)
BatchDescriptors == [name : DocNames, src : {"ids", "noids"}]

RECURSIVE SeqsUpTo(_, _)
SeqsUpTo(S, n) ==
    IF n = 0 THEN {<<>>}
    ELSE LET shorter == SeqsUpTo(S, n - 1)
         IN  shorter \cup {Append(s, x) : s \in {t \in shorter : Len(t) = n - 1}, x \in S}

VARIABLES
    access_token,  \* TRUE when auth.access_token / self.access_token is set
    site_id,       \* TRUE when self.site_id is set
    bedrock,       \* TRUE when a BedrockIntegration is configured
    op,            \* the public operation called ("" before any call)
    phase,         \* "idle" before the call, "running", then "returned" or "raised"
    ret,           \* what the public operation returned or raised
    documents,     \* its descriptor list argument
    i,             \* number of loop iterations of the batch completed
    results,       \* the batch's result mapping (a function on the names recorded)
    progress_callback, \* TRUE when the batch was given a progress callback
    progress,      \* the progress callback's invocations, in order
    attempted,     \* indices of documents handed to the transfer engine, in order
    succeeded,     \* indices of documents whose download (and ingestion, in the
                   \* ingest variant) succeeded
    dl_pc,         \* position inside the current download: "idle", "attempt", "done"
    dl_doc,        \* the descriptor being downloaded
    attempt,       \* loop variable of the retry loop
    responses,     \* answers received to the GETs of the current download, in order
    dl_result,     \* result of the current download
    files,         \* local files written (by path)
    ingested,      \* ingestion calls that succeeded (by path)
    ingest_attempts, \* the paths handed to ingest_document
    remote_names,  \* the names the remote store gives to its folders and files
    events,        \* listing requests, sleeps and drive scans, in the order they happen
    drives_answer, \* the answers to the request that lists the drives (<<>> before it)
    drive_idx,     \* number of drives whose scan was started
    stack,         \* activation records of the recursive scan, innermost first
    enum_documents,\* the accumulator list `documents` of the enumeration
    listed,        \* pages requested by folder-listing calls, in order
    failed,        \* pages whose listing call got no 200 answer
    auth_pc,       \* position of the main flow inside authenticate()
    serving,       \* TRUE while the listener thread runs serve_forever
    auth_code,     \* server.auth_code: <<>> for None, else <<code>>
    auth_error,    \* server.auth_error: <<>> for None, else <<description>>
    waited,        \* the loop counter `waited` of authenticate()
    handled,       \* number of requests the listener has handled
    writes,        \* number of assignments do_GET made to the recorded result
    exchanges,     \* the codes sent to the token endpoint, in order
    exchange_answer, \* the token endpoint's answers (<<>> before the request)
    error_at_check,\* the value of server.auth_error the main flow read at line 154
    pending,       \* the return or exception in flight while the finally block runs
    message,       \* the parts of the message of the exception authenticate() raised
    token_set,     \* TRUE when this call assigned self.access_token
    token_response,\* self.token_response: "None" or the body assigned to it
    auth_before,   \* access_token and token_response when authenticate() was called
    filename,      \* the argument of _sanitize_filename, a sequence of characters
    applied,       \* how many times _sanitize_filename was applied
    once,          \* _sanitize_filename(filename)
    twice,         \* _sanitize_filename(_sanitize_filename(filename))
    meta_pc,       \* "new", "written" (the metadata file exists), "loaded"
    meta_documents,\* the descriptor list given to save_documents_metadata
    meta_file,     \* the text of the metadata file, a sequence of characters
    meta_loaded,   \* what load_documents_metadata returned
    dest_pc,       \* "new", then "computed"
    dest_doc,      \* a descriptor's library, path and safe_name
    dest_path,     \* the components of file_path below download_path
    session_token, \* auth.access_token of a scraper session: "None", "" or "token"
    session_site,  \* self.site_id of a scraper session: "None", "" or "site"
    sess_pc,       \* where the session stands
    site_attempt,  \* the loop variable of _setup_site_connection
    site_responses,\* the answers to the lookup requests of the running resolution
    site_result,   \* what the last _setup_site_connection returned
    site_before,   \* self.site_id when the last _setup_site_connection started
    json_error     \* what response.json() raises on a body that is not JSON

dlvars == <<dl_pc, dl_doc, attempt, responses, dl_result, files, ingested, ingest_attempts>>
batchvars == <<documents, i, results, progress_callback, progress, attempted, succeeded>>
envvars == <<access_token, site_id, bedrock>>
callvars == <<op, phase, ret>>
enumvars == <<remote_names, events, drives_answer, drive_idx, stack, enum_documents, listed,
              failed>>
authvars == <<auth_pc, serving, auth_code, auth_error, waited, handled, writes,
              exchanges, exchange_answer, error_at_check, pending, message, token_set,
              token_response, auth_before>>
purevars == <<filename, applied, once, twice>>
metavars == <<meta_pc, meta_documents, meta_file, meta_loaded>>
destvars == <<dest_pc, dest_doc, dest_path>>
sessvars == <<session_token, session_site, sess_pc, site_attempt, site_responses, site_result,
              site_before, json_error>>
extvars == <<metavars, destvars, sessvars>>
vars == <<envvars, callvars, batchvars, dlvars, enumvars, authvars, purevars, extvars>>

\* a value for "no exception or return in flight"
NoPending == [kind |-> "", msg |-> <<>>]

\* no metadata file has been written or read
InitMetaVars ==
    /\ meta_pc = "new"
    /\ meta_documents = <<>>
    /\ meta_file = <<>>
    /\ meta_loaded = <<>>

\* no destination has been computed
InitDestVars ==
    /\ dest_pc = "new"
    /\ dest_doc = [library |-> <<>>, path |-> <<>>, safe_name |-> <<>>]
    /\ dest_path = <<>>

InitSessVars ==
    /\ session_token = "None"
    /\ session_site = "None"
    /\ sess_pc = "new"
    /\ site_attempt = 0
    /\ site_responses = <<>>
    /\ site_result = ""
    /\ site_before = "None"
    /\ json_error = "ValueError"

InitExtVars ==
    /\ InitMetaVars
    /\ InitDestVars
    /\ InitSessVars

\* no name has been sanitized
InitPureVars ==
    /\ filename = <<>>
    /\ applied = 0
    /\ once = <<>>
    /\ twice = <<>>

\* auth.py:89-90 and 135-136: nothing recorded, no listener, no call made
InitAuthCore ==
    /\ auth_pc = "idle"
    /\ serving = FALSE
    /\ auth_code = <<>>
    /\ auth_error = <<>>
    /\ waited = 0
    /\ handled = 0
    /\ writes = 0
    /\ exchanges = <<>>
    /\ exchange_answer = <<>>
    /\ error_at_check = <<>>
    /\ pending = NoPending
    /\ message = <<>>
    /\ token_set = FALSE

InitAuthVars ==
    /\ InitAuthCore
    /\ token_response = "None"
    /\ auth_before = <<FALSE, "None">>

(***************************************************************************)
(* Transfer engine: SharePointScraper.download_document                    *)
(***************************************************************************)
\* the local destination of a descriptor; with download_path, library and
\* folder fixed it is decided by the descriptor's safe_name alone
FilePath(doc) == doc.name

\* document.get('name', 'Unknown')
doc_name(doc) == doc.name

\* scraper.py:328-330: the handler logs the error and returns None
download_except(doc) == "None"

\* scraper.py:271-296: everything before the retry loop.  "go" enters the loop.
download_prepare(doc, mkdir_ok) ==
    IF ~mkdir_ok THEN download_except(doc)               \* mkdir raises OSError
    ELSE IF doc.src = "noids" THEN download_except(doc)  \* DownloadError at 294
    ELSE "go"

\* scraper.py:302-309: a request is issued unless get_auth_headers raises
download_can_request(doc, token) == doc.src = "marked" \/ token

\* mutant: a non-200 status is handled like a RequestException and retried
download_attempt_retry_status(doc, a, att, write_ok) ==
    IF a = 200 THEN (IF write_ok THEN doc.name ELSE "None")
    ELSE IF att = max_retries - 1 THEN "None" ELSE "retry"

\* mutant: the three non-retryable statuses get failure values of their own
download_attempt_named_failures(doc, a, att, write_ok) ==
    IF a = 200 THEN (IF write_ok THEN doc.name ELSE "None")
    ELSE IF a = NetExc THEN (IF att = max_retries - 1 THEN "None" ELSE "retry")
    ELSE IF a = 401 THEN "AuthExpired"
    ELSE IF a = 403 THEN "AccessDenied"
    ELSE IF a = 404 THEN "NotFound"
    ELSE "None"

\* mutant: the last pass is recognised one pass too late
download_attempt_extra_pass(doc, a, att, write_ok) ==
    IF a = 200 THEN (IF write_ok THEN doc.name ELSE "None")
    ELSE IF a = NetExc THEN (IF att = max_retries THEN "None" ELSE "retry")
    ELSE "None"

\* scraper.py:311-324: what one answered GET leads to.  A non-200 status raises
\* DownloadError, which is no requests.RequestException: the outer handler
\* takes it and the loop ends.
download_attempt(doc, a, att, write_ok) ==
    IF a = 200 THEN (IF write_ok THEN FilePath(doc) ELSE download_except(doc))
    ELSE IF a = NetExc
         THEN (IF att = max_retries - 1 THEN download_except(doc) ELSE "retry")
         ELSE download_except(doc)

(***************************************************************************)
(* Script: UserLevelSharePointScraper.download_and_ingest_document         *)
(***************************************************************************)
\* sharepoint_doc_scraper.py:716-718
script_except(doc) == "False"

\* sharepoint_doc_scraper.py:630-658
script_prepare(doc, token, site, mkdir_ok) ==
    IF ~token THEN "False"
    ELSE IF ~site \/ doc.src = "noids" THEN script_except(doc)
    ELSE IF ~mkdir_ok THEN script_except(doc)
    ELSE "go"

\* sharepoint_doc_scraper.py:674-714.  raise_for_status raises HTTPError (a
\* RequestException) for 4xx/5xx statuses and nothing for the others, in which
\* case the loop goes on and the function ends without a return statement.
script_attempt(doc, a, att, write_ok, ingest_ok) ==
    IF a = 200 THEN (IF write_ok /\ ingest_ok THEN "True" ELSE script_except(doc))
    ELSE IF a \in {401, 403, 404} THEN "False"
    ELSE IF a = NetExc \/ a >= 400
         THEN (IF att < max_retries - 1 THEN "retry" ELSE script_except(doc))
         ELSE (IF att < max_retries - 1 THEN "retry" ELSE "None")

(***************************************************************************)
(* The download sub-machine                                                *)
(***************************************************************************)
Failures == {"None", "False"}
IsPackageOp == op \in {"download_document", "download_and_ingest_document",
                       "bulk_download", "bulk_download_and_ingest"}

\* enter download_document / the script's download for descriptor doc
StartDownload(doc, prepared) ==
    /\ dl_doc' = doc
    /\ attempt' = 0
    /\ responses' = <<>>
    /\ dl_pc' = IF prepared = "go" THEN "attempt" ELSE "done"
    /\ dl_result' = IF prepared = "go" THEN "" ELSE prepared
    /\ UNCHANGED <<files, ingested, ingest_attempts>>

Finish(r) ==
    /\ dl_pc' = "done"
    /\ dl_result' = r
    /\ UNCHANGED attempt

\* one pass of the retry loop of download_document
DownloadAttempt ==
    /\ phase = "running"
    /\ IsPackageOp
    /\ dl_pc = "attempt"
    /\ IF ~download_can_request(dl_doc, access_token)
       THEN /\ Finish(download_except(dl_doc))     \* AuthenticationError at 307
            /\ UNCHANGED <<responses, files>>
       ELSE \E a \in Answers, write_ok \in BOOLEAN :
              LET r == download_attempt(dl_doc, a, attempt, write_ok) IN
              /\ responses' = Append(responses, a)
              /\ IF r = "retry"
                 THEN /\ attempt' = attempt + 1
                      /\ UNCHANGED <<dl_pc, dl_result, files>>
                 ELSE /\ Finish(r)
                      /\ files' = IF r = FilePath(dl_doc) THEN files \cup {r} ELSE files
    /\ UNCHANGED <<envvars, callvars, batchvars, dl_doc, ingested, ingest_attempts>>
    /\ UNCHANGED <<enumvars, authvars, purevars, extvars>>

\* one pass of the retry loop of the script's download_and_ingest_document
ScriptDownloadAttempt ==
    /\ phase = "running"
    /\ op = "script_download_and_ingest_document"
    /\ dl_pc = "attempt"
    /\ \E a \in Answers, write_ok \in BOOLEAN, ingest_ok \in BOOLEAN :
         LET r == script_attempt(dl_doc, a, attempt, write_ok, ingest_ok) IN
         /\ responses' = Append(responses, a)
         /\ IF r = "retry"
            THEN /\ attempt' = attempt + 1
                 /\ UNCHANGED <<dl_pc, dl_result, files, ingested, ingest_attempts>>
            ELSE /\ Finish(r)
                 /\ files' = IF a = 200 /\ write_ok
                             THEN files \cup {FilePath(dl_doc)} ELSE files
                 /\ ingested' = IF r = "True"
                                THEN ingested \cup {FilePath(dl_doc)} ELSE ingested
                 /\ ingest_attempts' = IF a = 200 /\ write_ok
                                       THEN ingest_attempts \cup {FilePath(dl_doc)}
                                       ELSE ingest_attempts
    /\ UNCHANGED <<envvars, callvars, batchvars, dl_doc>>
    /\ UNCHANGED <<enumvars, authvars, purevars, extvars>>

(***************************************************************************)
(* Single-document operations                                              *)
(***************************************************************************)
NoDoc == [name |-> "", src |-> ""]
EmptyMap == [x \in {} |-> ""]

ResetBatch(docs, cb) ==
    /\ documents' = docs
    /\ progress_callback' = cb
    /\ i' = 0
    /\ results' = EmptyMap
    /\ progress' = <<>>
    /\ attempted' = <<>>
    /\ succeeded' = {}

\* download_document(document) called on its own
CallDownloadDocument ==
    /\ phase = "idle"
    /\ \E doc \in Descriptors, mkdir_ok \in BOOLEAN :
         /\ ResetBatch(<<doc>>, FALSE)
         /\ StartDownload(doc, download_prepare(doc, mkdir_ok))
    /\ op' = "download_document"
    /\ phase' = "running"
    /\ UNCHANGED <<envvars, ret>>
    /\ UNCHANGED <<enumvars, authvars, purevars, extvars>>

\* scraper.py:316, 326, 330: the path, or None
DownloadReturn ==
    /\ phase = "running"
    /\ op = "download_document"
    /\ dl_pc = "done"
    /\ phase' = "returned"
    /\ ret' = dl_result
    /\ UNCHANGED <<envvars, op, batchvars, dlvars>>
    /\ UNCHANGED <<enumvars, authvars, purevars, extvars>>

\* the script's download_and_ingest_document(document)
CallScriptDownload ==
    /\ phase = "idle"
    /\ \E doc \in Descriptors, mkdir_ok \in BOOLEAN :
         /\ ResetBatch(<<doc>>, FALSE)
         /\ StartDownload(doc, script_prepare(doc, access_token, site_id, mkdir_ok))
    /\ op' = "script_download_and_ingest_document"
    /\ phase' = "running"
    /\ UNCHANGED <<envvars, ret>>
    /\ UNCHANGED <<enumvars, authvars, purevars, extvars>>

ScriptDownloadReturn ==
    /\ phase = "running"
    /\ op = "script_download_and_ingest_document"
    /\ dl_pc = "done"
    /\ phase' = "returned"
    /\ ret' = dl_result
    /\ UNCHANGED <<envvars, op, batchvars, dlvars>>
    /\ UNCHANGED <<enumvars, authvars, purevars, extvars>>

\* mutant: ingest_document is called whatever download_document returned
ingest_called_always(file_path) == TRUE

\* scraper.py:348-357: ingest_document is called unless `not file_path`
ingest_called(file_path) == file_path # "None"

\* scraper.py:346-364: what download_and_ingest_document makes of the result
\* of download_document and of bedrock.ingest_document
download_and_ingest_result(doc, file_path, ingest_ok) ==
    IF file_path = "None" THEN "False"
    ELSE IF ingest_ok THEN "True" ELSE "False"

\* scraper.py:343-344
CallDownloadAndIngest ==
    /\ phase = "idle"
    /\ IF ~bedrock
       THEN /\ op' = "download_and_ingest_document"
            /\ phase' = "raised"
            /\ ret' = "ConfigurationError"
            /\ UNCHANGED <<batchvars, dlvars>>
       ELSE /\ \E doc \in Descriptors, mkdir_ok \in BOOLEAN :
                 /\ ResetBatch(<<doc>>, FALSE)
                 /\ StartDownload(doc, download_prepare(doc, mkdir_ok))
            /\ op' = "download_and_ingest_document"
            /\ phase' = "running"
            /\ UNCHANGED ret
    /\ UNCHANGED envvars
    /\ UNCHANGED <<enumvars, authvars, purevars, extvars>>

DownloadAndIngestReturn ==
    /\ phase = "running"
    /\ op = "download_and_ingest_document"
    /\ dl_pc = "done"
    /\ \E ingest_ok \in BOOLEAN :
         LET r == download_and_ingest_result(dl_doc, dl_result, ingest_ok) IN
         /\ phase' = "returned"
         /\ ret' = r
         /\ ingested' = IF r = "True" THEN ingested \cup {dl_result} ELSE ingested
    /\ ingest_attempts' = IF ingest_called(dl_result)
                          THEN ingest_attempts \cup {dl_result} ELSE ingest_attempts
    /\ UNCHANGED <<envvars, op, batchvars, dl_pc, dl_doc, attempt, responses, dl_result, files>>
    /\ UNCHANGED <<enumvars, authvars, purevars, extvars>>

(***************************************************************************)
(* Batch orchestrator: bulk_download and bulk_download_and_ingest          *)
(***************************************************************************)
\* scraper.py:366-381
CallBulkDownload ==
    /\ phase = "idle"
    /\ \E docs \in SeqsUpTo(BatchDescriptors, MaxDocs), cb \in BOOLEAN :
         ResetBatch(docs, cb)
    /\ op' = "bulk_download"
    /\ phase' = "running"
    /\ UNCHANGED <<envvars, ret, dlvars>>
    /\ UNCHANGED <<enumvars, authvars, purevars, extvars>>

\* scraper.py:399-417
CallBulkDownloadAndIngest ==
    /\ phase = "idle"
    /\ IF ~bedrock
       THEN /\ phase' = "raised"
            /\ ret' = "ConfigurationError"
            /\ UNCHANGED batchvars
       ELSE /\ \E docs \in SeqsUpTo(BatchDescriptors, MaxDocs), cb \in BOOLEAN :
                 ResetBatch(docs, cb)
            /\ phase' = "running"
            /\ UNCHANGED ret
    /\ op' = "bulk_download_and_ingest"
    /\ UNCHANGED <<envvars, dlvars>>
    /\ UNCHANGED <<enumvars, authvars, purevars, extvars>>

\* the loop body up to the call of download_document for documents[i]
BulkIterate ==
    /\ phase = "running"
    /\ op \in {"bulk_download", "bulk_download_and_ingest"}
    /\ dl_pc = "idle"
    /\ i < Len(documents)
    /\ \E mkdir_ok \in BOOLEAN :
         StartDownload(documents[i + 1], download_prepare(documents[i + 1], mkdir_ok))
    /\ attempted' = Append(attempted, i + 1)
    /\ UNCHANGED <<envvars, callvars, documents, i, results, progress_callback,
                   progress, succeeded>>
    /\ UNCHANGED <<enumvars, authvars, purevars, extvars>>

\* mutant: the entry is recorded without looking at the result
bulk_download_record_all(res, doc, file_path) == (doc.name :> file_path) @@ res

\* scraper.py:386-392: the entry bulk_download records for one document
bulk_download_record(res, doc, file_path) ==
    IF file_path = "None" THEN res
    ELSE (doc_name(doc) :> file_path) @@ res

\* mutant: the callback gets the loop index instead of the completed count
notify_zero_based(cb, calls, done, total) ==
    IF cb THEN Append(calls, <<done - 1, total>>) ELSE calls

\* scraper.py:394-395 and 428-429
notify(cb, calls, done, total) == IF cb THEN Append(calls, <<done, total>>) ELSE calls

LeaveDownload ==
    /\ dl_pc' = "idle"
    /\ dl_result' = ""
    /\ dl_doc' = NoDoc
    /\ attempt' = 0
    /\ responses' = <<>>
    /\ UNCHANGED files

\* the rest of the loop body of bulk_download
BulkRecord ==
    /\ phase = "running"
    /\ op = "bulk_download"
    /\ dl_pc = "done"
    /\ results' = bulk_download_record(results, dl_doc, dl_result)
    /\ succeeded' = IF dl_result \in Failures THEN succeeded ELSE succeeded \cup {i + 1}
    /\ progress' = notify(progress_callback, progress, i + 1, Len(documents))
    /\ i' = i + 1
    /\ LeaveDownload
    /\ UNCHANGED <<envvars, callvars, documents, progress_callback, attempted, ingested,
                   ingest_attempts>>
    /\ UNCHANGED <<enumvars, authvars, purevars, extvars>>

\* mutant: an entry already recorded under the name is kept
bulk_ingest_record_first(res, doc, success) ==
    res @@ (doc.name :> success)

\* scraper.py:421-426: the entry bulk_download_and_ingest records
bulk_ingest_record(res, doc, success) ==
    (doc_name(doc) :> success) @@ res

\* the rest of the loop body of bulk_download_and_ingest
BulkIngestRecord ==
    /\ phase = "running"
    /\ op = "bulk_download_and_ingest"
    /\ dl_pc = "done"
    /\ \E ingest_ok \in BOOLEAN :
         LET success == download_and_ingest_result(dl_doc, dl_result, ingest_ok) IN
         /\ results' = bulk_ingest_record(results, dl_doc, success)
         /\ ingested' = IF success = "True" THEN ingested \cup {dl_result} ELSE ingested
         /\ succeeded' = IF success = "True" THEN succeeded \cup {i + 1} ELSE succeeded
    /\ ingest_attempts' = IF ingest_called(dl_result)
                          THEN ingest_attempts \cup {dl_result} ELSE ingest_attempts
    /\ progress' = notify(progress_callback, progress, i + 1, Len(documents))
    /\ i' = i + 1
    /\ LeaveDownload
    /\ UNCHANGED <<envvars, callvars, documents, progress_callback, attempted>>
    /\ UNCHANGED <<enumvars, authvars, purevars, extvars>>

\* scraper.py:397 and 431
BulkReturn ==
    /\ phase = "running"
    /\ op \in {"bulk_download", "bulk_download_and_ingest"}
    /\ dl_pc = "idle"
    /\ i = Len(documents)
    /\ phase' = "returned"
    /\ ret' = "results"
    /\ UNCHANGED <<envvars, op, batchvars, dlvars>>
    /\ UNCHANGED <<enumvars, authvars, purevars, extvars>>

(***************************************************************************)
(* Specification of the transfer engine and the batch orchestrator         *)
(***************************************************************************)
InitTransfer ==
    /\ access_token \in BOOLEAN
    /\ site_id \in BOOLEAN
    /\ bedrock \in BOOLEAN
    /\ op = ""
    /\ phase = "idle"
    /\ ret = ""
    /\ documents = <<>>
    /\ progress_callback = FALSE
    /\ i = 0
    /\ results = EmptyMap
    /\ progress = <<>>
    /\ attempted = <<>>
    /\ succeeded = {}
    /\ dl_pc = "idle"
    /\ dl_doc = NoDoc
    /\ attempt = 0
    /\ responses = <<>>
    /\ dl_result = ""
    /\ files = {}
    /\ ingested = {}
    /\ ingest_attempts = {}
    /\ remote_names = EmptyMap
    /\ events = <<>>
    /\ drives_answer = <<>>
    /\ drive_idx = 0
    /\ stack = <<>>
    /\ enum_documents = <<>>
    /\ listed = <<>>
    /\ failed = {}
    /\ InitAuthVars
    /\ InitPureVars
    /\ InitExtVars

NextTransfer ==
    \/ CallDownloadDocument
    \/ DownloadAttempt
    \/ DownloadReturn
    \/ CallScriptDownload
    \/ ScriptDownloadAttempt
    \/ ScriptDownloadReturn
    \/ CallDownloadAndIngest
    \/ DownloadAndIngestReturn
    \/ CallBulkDownload
    \/ CallBulkDownloadAndIngest
    \/ BulkIterate
    \/ BulkRecord
    \/ BulkIngestRecord
    \/ BulkReturn

SpecTransfer == InitTransfer /\ [][NextTransfer]_vars

(***************************************************************************)
(* Properties of the transfer engine                                       *)
(***************************************************************************)
Last(s) == s[Len(s)]
IsDownloadOp == op \in {"download_document", "download_and_ingest_document",
                        "bulk_download", "bulk_download_and_ingest",
                        "script_download_and_ingest_document"}
NoRetryStatuses == {401, 403, 404}

\* C1: download_document retries a failed GET: an answer of 500 (or a network
\* exception) on an attempt before the third does not end the download, and a
\* 200 that follows yields the path of the written file.
C1_RetriesThenSucceeds ==
    (op = "download_document" /\ dl_pc = "done" /\ responses # <<>>) =>
        /\ Last(responses) \in {500, NetExc} => Len(responses) = max_retries
        /\ (Last(responses) = 200 /\ FilePath(dl_doc) \in files)
               => dl_result = FilePath(dl_doc)

\* C2: a GET answered with 401, 403 or 404 is never retried: that answer is the
\* last one of the download (the only one when it answers the first attempt)
\* and the download has ended in failure.
C2_NoRetryOnTerminalStatus ==
    IsDownloadOp =>
        \A k \in 1..Len(responses) :
            responses[k] \in NoRetryStatuses =>
                /\ k = Len(responses)
                /\ dl_pc = "done"
                /\ dl_result \in Failures

C2_Witness ==
    /\ op = "download_document"
    /\ phase = "returned"
    /\ responses = <<403>>
    /\ ret = "None"

FailureValue == IF op = "script_download_and_ingest_document" THEN "False" ELSE "None"

C4_AtMostThreeRequests ==
    (op \in {"download_document", "download_and_ingest_document",
             "bulk_download", "bulk_download_and_ingest"}) =>
        /\ Len(responses) <= max_retries
        /\ dl_pc = "attempt" => (attempt < max_retries /\ Len(responses) = attempt)
        /\ dl_pc = "done" => dl_result \in {"None", FilePath(dl_doc)}
        /\ (op = "download_document" /\ phase = "returned")
               => ret \in {"None", FilePath(dl_doc)}

C4_Witness ==
    /\ op = "download_document"
    /\ phase = "returned"
    /\ responses = <<NetExc, NetExc, NetExc>>
    /\ ret = "None"

(***************************************************************************)
(* Properties of the batch orchestrator                                    *)
(***************************************************************************)
\* C9 as stated: the mapping returned by bulk_download has as many entries as
\* there are descriptors whose download succeeded.
C9_OneEntryPerSuccess ==
    (op = "bulk_download" /\ phase = "returned") =>
        Cardinality(DOMAIN results) = Cardinality(succeeded)

\* C9 amended: the mapping is keyed by document name: its keys are exactly the
\* names of the descriptors whose download succeeded (one entry per distinct
\* name, holding the path of a successful download of that name), so it has as
\* many entries as successes when those names are pairwise distinct.
C9_OneEntryPerSuccessfulName ==
    op = "bulk_download" =>
        /\ DOMAIN results = {documents[k].name : k \in succeeded}
        /\ \A n \in DOMAIN results :
             \E k \in succeeded : documents[k].name = n /\ results[n] = FilePath(documents[k])
        /\ (\A j, k \in succeeded : j # k => documents[j].name # documents[k].name)
               => Cardinality(DOMAIN results) = Cardinality(succeeded)

C9_Witness ==
    /\ op = "bulk_download"
    /\ phase = "returned"
    /\ Len(documents) = 3
    /\ Cardinality(succeeded) = 2
    /\ Cardinality(DOMAIN results) = 1

\* C10: with a progress callback, bulk_download and bulk_download_and_ingest
\* call it once after each download attempt, failed or not, with (1,N), (2,N),
\* ... in that order, and N times by the time the batch returns.
C10_ProgressAfterEachAttempt ==
    (op \in {"bulk_download", "bulk_download_and_ingest"} /\ progress_callback
     /\ phase \in {"running", "returned"}) =>
        /\ Len(progress) = i
        /\ \A k \in 1..Len(progress) : progress[k] = <<k, Len(documents)>>
        /\ Len(attempted) = IF dl_pc = "idle" THEN i ELSE i + 1
        /\ phase = "returned" => Len(progress) = Len(documents)

C10_Witness ==
    /\ op = "bulk_download_and_ingest"
    /\ phase = "returned"
    /\ progress_callback
    /\ Len(documents) = 3
    /\ Cardinality(succeeded) = 1
    /\ progress = <<(<<1, 3>>), (<<2, 3>>), (<<3, 3>>)>>

\* C11 as stated: no failing download aborts a batch (every descriptor is
\* attempted exactly once, in input order), and in the mapping returned by
\* bulk_download_and_ingest every descriptor that failed is reported as False
\* under its name.
C11_EveryFailureReportedFalse ==
    (op \in {"bulk_download", "bulk_download_and_ingest"}
     /\ phase \in {"running", "returned"}) =>
        /\ attempted = [k \in 1..Len(attempted) |-> k]
        /\ Len(attempted) = IF dl_pc = "idle" THEN i ELSE i + 1
        /\ phase = "returned" => Len(attempted) = Len(documents)
        /\ (op = "bulk_download_and_ingest" /\ phase = "returned") =>
               \A k \in (1..Len(documents)) \ succeeded :
                   /\ documents[k].name \in DOMAIN results
                   /\ results[documents[k].name] = "False"

\* the last of the first n descriptors that carries the name
LastNamed(name, n) ==
    CHOOSE k \in 1..n :
        /\ documents[k].name = name
        /\ \A j \in (k + 1)..n : documents[j].name # name

\* C11 amended: no failing download aborts a batch: every descriptor is
\* attempted exactly once, in input order, whatever happened to the earlier
\* ones.  The mapping of bulk_download_and_ingest is keyed by name and holds,
\* for each name, the outcome of the last descriptor processed with that name:
\* a descriptor that failed is reported as False under its name unless a later
\* descriptor of the same name succeeded.
C11_BatchNeverAborts ==
    (op \in {"bulk_download", "bulk_download_and_ingest"}
     /\ phase \in {"running", "returned"}) =>
        /\ attempted = [k \in 1..Len(attempted) |-> k]
        /\ Len(attempted) = IF dl_pc = "idle" THEN i ELSE i + 1
        /\ phase = "returned" => Len(attempted) = Len(documents)
        /\ op = "bulk_download_and_ingest" =>
               /\ DOMAIN results = {documents[k].name : k \in 1..i}
               /\ \A n \in DOMAIN results :
                    results[n] = IF LastNamed(n, i) \in succeeded THEN "True" ELSE "False"
               /\ \A k \in (1..i) \ succeeded :
                    (\A j \in (k + 1)..i : documents[j].name = documents[k].name
                                              => j \notin succeeded)
                    => results[documents[k].name] = "False"

\* a batch of three in which the first and the second descriptor failed and
\* the third was still attempted and succeeded, the failures reported as False
C11_Witness ==
    /\ op = "bulk_download_and_ingest"
    /\ phase = "returned"
    /\ attempted = <<1, 2, 3>>
    /\ succeeded = {3}
    /\ documents[1].name = documents[2].name
    /\ documents[3].name # documents[1].name
    /\ results[documents[1].name] = "False"
    /\ results[documents[3].name] = "True"

\* C23: in download_and_ingest_document ingestion is attempted only after the
\* download returned a path (the file is then at its destination); when the
\* ingestion fails the file stays where it is, the document is reported as
\* False, and nothing is raised to the caller or to the batch.
C23_IngestAfterDownloadFileKept ==
    (op \in {"download_and_ingest_document", "bulk_download_and_ingest"}) =>
        /\ ingest_attempts \subseteq files
        /\ ingested \subseteq ingest_attempts
        /\ phase = "raised" => (~bedrock /\ ret = "ConfigurationError" /\ files = {})
        /\ (op = "download_and_ingest_document" /\ phase = "returned") =>
              /\ ret \in {"True", "False"}
              /\ ret = "True" <=> dl_result \in ingested
              /\ dl_result \in ingest_attempts <=> dl_result \notin Failures
              /\ dl_result \in ingest_attempts => dl_result \in files
        /\ (op = "bulk_download_and_ingest" /\ phase = "returned") =>
              \A k \in DOMAIN documents :
                  (FilePath(documents[k]) \in ingest_attempts \ ingested)
                      => /\ results[documents[k].name] = "False"
                         /\ FilePath(documents[k]) \in files

\* a download that succeeded followed by an ingestion that failed
C23_Witness ==
    /\ op = "download_and_ingest_document"
    /\ phase = "returned"
    /\ ret = "False"
    /\ dl_result \in ingest_attempts
    /\ dl_result \notin ingested
    /\ dl_result \in files

(***************************************************************************)
(* The remote store seen by the tree enumerator                            *)
(***************************************************************************)
\* number of drives (document libraries) of the site
NumDrives == 2

\* Names are sequences of characters, so that the code's tests on them
\* (startswith('_'), == 'Forms') are computed and not assumed.
Forms == <<"F", "o", "r", "m", "s">>
LowerForms == <<"f", "o", "r", "m", "s">>

\* Every drive holds the same tree.  Pages are numbered within the drive:
\*   1  root:      file f1, folder A, folder B, an item that is neither, file f2
\*   2  A, page 1: file f3, folder C                 (continues on page 3)
\*   3  A, page 2: file f4
\*   4  A/C:       file f5
\*   5  B:         file f6
FolderIds == {"A", "B", "C"}
FolderParent == [f \in FolderIds |-> IF f = "C" THEN "A" ELSE ""]
FolderFirstPage == [f \in FolderIds |-> CASE f = "A" -> 2 [] f = "B" -> 5 [] f = "C" -> 4]

\* the names a folder may carry on the remote side
FolderNameChoices ==
    [f \in FolderIds |->
        CASE f = "A" -> {<<"A">>, Forms}
          [] f = "B" -> {<<"B">>}
          [] f = "C" -> {<<"C">>, <<"_", "c">>, LowerForms}]

\* the value of a key the JSON object of an item does not carry
Absent == <<"">>

Unknown == <<"U", "n", "k", "n", "o", "w", "n">>

\* the files whose name on the remote side varies: a name, an empty name, no
\* 'name' key at all
NamedFiles == {"f2"}
FileNameChoices == {<<"b">>, <<>>, Absent}

File(id, name) ==
    [kind |-> "file", id |-> id, name |-> IF id \in NamedFiles THEN remote_names[id] ELSE name]
Folder(id) == [kind |-> "folder", id |-> id, name |-> remote_names[id]]
OtherItem(id) == [kind |-> "other", id |-> id, name |-> <<"n">>]

PageItems(k) ==
    CASE k = 1 -> <<File("f1", <<"a">>), Folder("A"), Folder("B"), OtherItem("n1"),
                    File("f2", <<"b">>)>>
      [] k = 2 -> <<File("f3", <<"a">>), Folder("C")>>
      [] k = 3 -> <<File("f4", <<"c">>)>>
      [] k = 4 -> <<File("f5", <<"a">>)>>
      [] k = 5 -> <<File("f6", <<"d">>)>>

\* '@odata.nextLink' of a page (0: the response carries none)
PageNext(k) == IF k = 2 THEN 3 ELSE 0

\* the folder a page lists ("" is the drive's root)
PageFolder(k) == CASE k = 1 -> "" [] k \in {2, 3} -> "A" [] k = 4 -> "C" [] k = 5 -> "B"

PagesPerDrive == 1..5
Pg(d, k) == d * 10 + k
PgDrive(p) == p \div 10
PgNo(p) == p % 10
AllPages == {Pg(d, k) : d \in 1..NumDrives, k \in PagesPerDrive}

RECURSIVE NamePath(_)
\* the path of folder names from the drive's root down to folder f
NamePath(f) == IF f = "" THEN <<>> ELSE Append(NamePath(FolderParent[f]), remote_names[f])

\* GET .../drives/{drive}/root:/{folder_path}:/children, resolved by the remote
\* side: the first page of the folder at that path, 0 when there is none (404)
ResolvePath(d, folder_path) ==
    LET fs == {f \in FolderIds : NamePath(f) = folder_path}
    IN  IF fs = {} THEN 0 ELSE Pg(d, FolderFirstPage[CHOOSE f \in fs : TRUE])

\* GET .../drives/{drive}/items/{item_id}/children
ResolveId(d, item_id) ==
    IF item_id \in FolderIds THEN Pg(d, FolderFirstPage[item_id]) ELSE 0

\* answers to a listing request; NetExc: requests.get raised
ListAnswers == {200, 500, NetExc}

(***************************************************************************)
(* Tree enumerator: get_documents / _scan_drive_recursive and the script's *)
(* get_documents_graph / _scan_drive_items_recursive                       *)
(***************************************************************************)
IsEnumOp == op \in {"get_documents", "get_documents_graph"}

\* mutant: the guard looks at the token only
enum_guard_token_only(token, site) == token

\* scraper.py:165 and sharepoint_doc_scraper.py:440
enum_guard(token, site) == token /\ site

\* scraper.py:166 raises, sharepoint_doc_scraper.py:441-442 returns documents
guard_failure(o) == IF o = "get_documents" THEN "raised" ELSE "returned"

\* SharePointError (scraper.py:166, 201) or the list (sharepoint_doc_scraper.py:459)
failure_value(o) == IF o = "get_documents" THEN "SharePointError" ELSE "documents"

\* mutant: a failed drives request is taken for an empty answer and the scan goes on
drives_failure_ignored(o) == "running"

\* what the call does when the drives request was not answered with 200:
\* scraper.py:178-179 and 199-201 raise, sharepoint_doc_scraper.py:457-466 return
drives_failure(o) == IF o = "get_documents" THEN "raised" ELSE "returned"

\* item.get(key, default): the default stands in for a key that is absent
\* (scraper.py:228, 246 and sharepoint_doc_scraper.py:527)
get(value, default) == IF value = Absent THEN default ELSE value

\* sharepoint_doc_scraper.py:540 (after a subfolder scan returned) and 479
\* (after the scan of a drive returned); scraper.py has no sleep at 185-197
\* and 245-250
pace_after_return(o) == IF o = "get_documents_graph" THEN <<"sleep">> ELSE <<>>

\* sharepoint_doc_scraper.py:580, before the continuation page is requested;
\* scraper.py:253-255 has no sleep
pace_before_page(o) == IF o = "get_documents_graph" THEN <<"sleep">> ELSE <<>>

\* item_name.startswith('_') or item_name in ['Forms'] (sharepoint_doc_scraper.py:533);
\* _scan_drive_recursive has no such test (scraper.py:245-250)
skips_folder(o, name) ==
    IF o = "get_documents_graph"
    THEN LET item_name == get(name, Unknown)
         IN  (Len(item_name) > 0 /\ item_name[1] = "_") \/ item_name = Forms
    ELSE FALSE

\* the folder reference handed to the recursive call: scraper.py:247 builds
\* the path of names, sharepoint_doc_scraper.py:537 passes the item id
child_ref(o, folder_path, item) ==
    IF o = "get_documents" THEN Append(folder_path, get(item.name, Unknown)) ELSE <<item.id>>

\* scraper.py:208-213 and sharepoint_doc_scraper.py:507-512
items_url(o, fr) ==
    IF fr.page_url # 0 THEN fr.page_url
    ELSE IF fr.folder_path # <<>>
         THEN (IF o = "get_documents" THEN ResolvePath(fr.drive, fr.folder_path)
                                      ELSE ResolveId(fr.drive, fr.folder_path[1]))
         ELSE Pg(fr.drive, 1)

\* scraper.py:227-241 and sharepoint_doc_scraper.py:544-568
doc_metadata(o, fr, item) ==
    [name |-> get(item.name, Unknown), id |-> item.id, drive_id |-> fr.drive,
     library |-> fr.drive,
     path |-> IF o = "get_documents" THEN fr.folder_path
              ELSE Append(NamePath(PageFolder(PgNo(fr.page))), get(item.name, Unknown))]

\* mutant: the continuation link is not followed
next_link_none(page) == 0

\* scraper.py:253-255 and sharepoint_doc_scraper.py:577-581
next_link(page) == IF PageNext(PgNo(page)) = 0 THEN 0 ELSE Pg(PgDrive(page), PageNext(PgNo(page)))

\* mutant: the failure propagates to the caller of the scan of the drive
after_failed_listing_abort(st) == <<>>

\* mutant: a listing that fails is requested again
after_failed_listing_retry(st) == st

\* scraper.py:217-219 and 257-258: a listing that fails ends this activation only
after_failed_listing(st) == Tail(st)

Frame(d, folder_path, page_url) ==
    [drive |-> d, folder_path |-> folder_path, page_url |-> page_url,
     pc |-> "call", page |-> 0, idx |-> 0]

ResetEnum ==
    /\ drive_idx' = 0
    /\ events' = <<>>
    /\ stack' = <<>>
    /\ enum_documents' = <<>>
    /\ listed' = <<>>
    /\ failed' = {}

\* get_documents() / get_documents_graph() up to the loop over the drives
CallGetDocuments ==
    /\ phase = "idle"
    /\ \E o \in {"get_documents", "get_documents_graph"} :
         /\ op' = o
         /\ ResetEnum
         /\ IF ~enum_guard(access_token, site_id)
            THEN /\ phase' = guard_failure(o)
                 /\ ret' = failure_value(o)
                 /\ drives_answer' = <<>>
            ELSE \E a \in ListAnswers :
                   /\ drives_answer' = <<a>>
                   /\ IF a = 200
                      THEN phase' = "running" /\ UNCHANGED ret
                      ELSE /\ phase' = drives_failure(o)
                           /\ ret' = failure_value(o)
    /\ UNCHANGED <<authvars, purevars, extvars, envvars, batchvars, dlvars, remote_names>>

\* scraper.py:185-192 and sharepoint_doc_scraper.py:469-476: the next drive
ScanDrive ==
    /\ phase = "running" /\ IsEnumOp
    /\ stack = <<>>
    /\ drive_idx < NumDrives
    /\ drive_idx' = drive_idx + 1
    /\ stack' = <<Frame(drive_idx + 1, <<>>, 0)>>
    /\ events' = Append(events, "drive")
    /\ UNCHANGED <<authvars, purevars, extvars, envvars, callvars, batchvars, dlvars, remote_names, drives_answer,
                   enum_documents, listed, failed>>

\* the listing request of one activation of the recursive scan
ScanRequest ==
    /\ phase = "running" /\ IsEnumOp
    /\ stack # <<>>
    /\ Head(stack).pc = "call"
    /\ LET fr == Head(stack)
           page == items_url(op, fr)
       IN  /\ listed' = Append(listed, page)
           /\ \E a \in (IF page = 0 THEN {404} ELSE ListAnswers) :
                IF a = 200
                THEN /\ stack' = <<[fr EXCEPT !.pc = "items", !.page = page, !.idx = 1]>>
                                 \o Tail(stack)
                     /\ events' = Append(events, "list")
                     /\ UNCHANGED failed
                ELSE /\ stack' = after_failed_listing(stack)
                     /\ events' = Append(events, "list") \o pace_after_return(op)
                     /\ failed' = failed \cup {page}
    /\ UNCHANGED <<authvars, purevars, extvars, envvars, callvars, batchvars, dlvars, remote_names, drives_answer,
                   drive_idx, enum_documents>>

\* one pass of the loop over the items of a page
ScanItem ==
    /\ phase = "running" /\ IsEnumOp
    /\ stack # <<>>
    /\ Head(stack).pc = "items"
    /\ Head(stack).idx <= Len(PageItems(PgNo(Head(stack).page)))
    /\ LET fr == Head(stack)
           item == PageItems(PgNo(fr.page))[fr.idx]
           rest == <<[fr EXCEPT !.idx = fr.idx + 1]>> \o Tail(stack)
       IN  IF item.kind = "file"
           THEN /\ enum_documents' = Append(enum_documents, doc_metadata(op, fr, item))
                /\ stack' = rest
                /\ UNCHANGED events
           ELSE IF item.kind = "folder" /\ ~skips_folder(op, item.name)
           THEN /\ stack' = <<Frame(fr.drive, child_ref(op, fr.folder_path, item), 0)>> \o rest
                /\ UNCHANGED <<enum_documents, events>>
           ELSE /\ stack' = rest
                /\ UNCHANGED <<enum_documents, events>>
    /\ UNCHANGED <<authvars, purevars, extvars, envvars, callvars, batchvars, dlvars, remote_names, drives_answer,
                   drive_idx, listed, failed>>

\* after the last item: follow the continuation link in the same folder
\* context, or return to the caller
ScanPageEnd ==
    /\ phase = "running" /\ IsEnumOp
    /\ stack # <<>>
    /\ Head(stack).pc = "items"
    /\ Head(stack).idx > Len(PageItems(PgNo(Head(stack).page)))
    /\ LET fr == Head(stack) IN
         IF next_link(fr.page) # 0
         THEN /\ stack' = <<Frame(fr.drive, fr.folder_path, next_link(fr.page))>> \o Tail(stack)
              /\ events' = events \o pace_before_page(op)
         ELSE /\ stack' = Tail(stack)
              /\ events' = events \o pace_after_return(op)
    /\ UNCHANGED <<authvars, purevars, extvars, envvars, callvars, batchvars, dlvars, remote_names, drives_answer,
                   drive_idx, enum_documents, listed, failed>>

\* scraper.py:196-197 and sharepoint_doc_scraper.py:485-486
GetDocumentsReturn ==
    /\ phase = "running" /\ IsEnumOp
    /\ stack = <<>>
    /\ drive_idx = NumDrives
    /\ phase' = "returned"
    /\ ret' = "documents"
    /\ UNCHANGED <<authvars, purevars, extvars, envvars, op, batchvars, dlvars, enumvars>>

InitEnum ==
    /\ access_token \in BOOLEAN
    /\ site_id \in BOOLEAN
    /\ bedrock = FALSE
    /\ op = ""
    /\ phase = "idle"
    /\ ret = ""
    /\ documents = <<>>
    /\ progress_callback = FALSE
    /\ i = 0
    /\ results = EmptyMap
    /\ progress = <<>>
    /\ attempted = <<>>
    /\ succeeded = {}
    /\ dl_pc = "idle"
    /\ dl_doc = NoDoc
    /\ attempt = 0
    /\ responses = <<>>
    /\ dl_result = ""
    /\ files = {}
    /\ ingested = {}
    /\ ingest_attempts = {}
    /\ remote_names \in [FolderIds \cup NamedFiles ->
                           UNION {FolderNameChoices[f] : f \in FolderIds} \cup FileNameChoices]
    /\ \A f \in FolderIds : remote_names[f] \in FolderNameChoices[f]
    /\ \A f \in NamedFiles : remote_names[f] \in FileNameChoices
    /\ events = <<>>
    /\ drives_answer = <<>>
    /\ drive_idx = 0
    /\ stack = <<>>
    /\ enum_documents = <<>>
    /\ listed = <<>>
    /\ failed = {}
    /\ InitAuthVars
    /\ InitPureVars
    /\ InitExtVars

NextEnum ==
    \/ CallGetDocuments
    \/ ScanDrive
    \/ ScanRequest
    \/ ScanItem
    \/ ScanPageEnd
    \/ GetDocumentsReturn

SpecEnum == InitEnum /\ [][NextEnum]_vars

\* the enumeration is one thread that runs on until it returns or raises
SpecEnumLive == InitEnum /\ [][NextEnum]_vars /\ WF_vars(NextEnum)

(***************************************************************************)
(* Properties of the tree enumerator                                       *)
(***************************************************************************)
\* the remote files, by (drive, item id), with the page that lists each
FilesOfPage(k) ==
    {PageItems(k)[j].id : j \in {x \in 1..Len(PageItems(k)) : PageItems(k)[x].kind = "file"}}
AllFiles == {<<d, f>> : d \in 1..NumDrives, f \in UNION {FilesOfPage(k) : k \in PagesPerDrive}}
PageOfFile(f) == CHOOSE k \in PagesPerDrive : f \in FilesOfPage(k)

DocKeys == {<<enum_documents[j].drive_id, enum_documents[j].id>> : j \in 1..Len(enum_documents)}

\* the page whose answer leads to the request of page k: the page it continues,
\* or the page that lists its folder (0 for the root page of a drive)
ParentPage(k) ==
    IF \E j \in PagesPerDrive : PageNext(j) = k
    THEN CHOOSE j \in PagesPerDrive : PageNext(j) = k
    ELSE IF PageFolder(k) = "" THEN 0
    ELSE CHOOSE j \in PagesPerDrive :
           \E x \in 1..Len(PageItems(j)) :
              PageItems(j)[x].kind = "folder" /\ PageItems(j)[x].id = PageFolder(k)

RECURSIVE Requires(_)
\* the pages of a drive that must be listed for page k to be listed, k included
Requires(k) == IF k = 0 THEN {} ELSE {k} \cup Requires(ParentPage(k))

RECURSIVE FolderChain(_)
\* folder f and the folders above it
FolderChain(f) == IF f = "" THEN {} ELSE {f} \cup FolderChain(FolderParent[f])

IsSystemName(name) == name = Forms \/ (Len(name) > 0 /\ name[1] = "_")

\* C5: when every listing is answered with 200, get_documents returns exactly
\* one descriptor per remote file of all drives, folders and pages, and no two
\* descriptors share (drive_id, id).
C5_OneDescriptorPerFile ==
    (op = "get_documents" /\ phase = "returned" /\ failed = {}) =>
        /\ Len(enum_documents) = Cardinality(AllFiles)
        /\ DocKeys = AllFiles

C5_Witness ==
    /\ op = "get_documents"
    /\ phase = "returned"
    /\ failed = {}
    /\ Len(enum_documents) = 6 * NumDrives
    /\ Len(listed) = 5 * NumDrives

\* C6: the enumeration never requests the listing of a folder named 'Forms' or
\* whose name starts with '_', and returns no descriptor of a file inside one.
C6_SystemFoldersSkipped ==
    IsEnumOp =>
        /\ \A n \in 1..Len(listed) :
             listed[n] # 0 =>
                \A f \in FolderChain(PageFolder(PgNo(listed[n]))) :
                    ~IsSystemName(remote_names[f])
        /\ \A n \in 1..Len(enum_documents) :
             \A f \in FolderChain(PageFolder(PageOfFile(enum_documents[n].id))) :
                 ~IsSystemName(remote_names[f])

\* C7: a folder listing (or one page of it) that gets no 200 answer costs only
\* the files that are reached through that listing: get_documents raises
\* nothing and returns, once each, the files of every page whose own listing
\* and the listings leading to it were answered with 200.
C7_FailedListingCostsItsSubtreeOnly ==
    (op = "get_documents" /\ drives_answer = <<200>>) =>
        /\ phase # "raised"
        /\ phase = "returned" =>
             /\ DocKeys = {df \in AllFiles :
                             \A k \in Requires(PageOfFile(df[2])) : Pg(df[1], k) \notin failed}
             /\ Cardinality(DocKeys) = Len(enum_documents)

C7_Witness ==
    /\ op = "get_documents"
    /\ phase = "returned"
    /\ failed = {Pg(1, 4)}
    /\ Len(enum_documents) = 6 * NumDrives - 1

\* C8 as stated: when the drives request gets no 200 answer, the enumeration
\* issues no folder listing and returns the empty list instead of raising.
C8_DrivesFailureReturnsEmpty ==
    (IsEnumOp /\ drives_answer # <<>> /\ drives_answer[1] # 200) =>
        /\ listed = <<>>
        /\ enum_documents = <<>>
        /\ phase = "returned"
        /\ ret = "documents"

\* C8 amended: when the drives request gets no 200 answer, no folder listing is
\* requested and no descriptor is produced; the script's get_documents_graph
\* returns the empty list, SharePointScraper.get_documents raises SharePointError.
C8_DrivesFailureEndsEnumeration ==
    (IsEnumOp /\ drives_answer # <<>> /\ drives_answer[1] # 200) =>
        /\ listed = <<>>
        /\ enum_documents = <<>>
        /\ op = "get_documents_graph" => (phase = "returned" /\ ret = "documents")
        /\ op = "get_documents" => (phase = "raised" /\ ret = "SharePointError")

C8_Witness ==
    /\ op = "get_documents"
    /\ phase = "raised"
    /\ drives_answer = <<500>>
    /\ listed = <<>>

\* C24: every descriptor returned by the tree enumeration has a non-empty
\* name; a remote item without a name, or with an empty name, gets the
\* sentinel name.
C24_DescriptorNameNeverEmpty ==
    IsEnumOp =>
        \A n \in 1..Len(enum_documents) :
            LET d == enum_documents[n] IN
            /\ d.name # <<>>
            /\ (d.id \in NamedFiles /\ remote_names[d.id] \in {Absent, <<>>}) => d.name = Unknown

\* C25: a pacing delay lies between any two consecutive folder-listing
\* requests of an enumeration (the request of a subfolder right after its
\* parent's listing and the request of a continuation page included), and
\* between the scans of two consecutive drives.
C25_DelayBetweenListings ==
    IsEnumOp =>
        \A j, k \in 1..Len(events) :
            (j < k /\ events[j] = events[k] /\ events[j] \in {"list", "drive"}) =>
                \E m \in (j + 1)..(k - 1) : events[m] = "sleep"

NoDuplicates(seq) == \A j, k \in 1..Len(seq) : seq[j] = seq[k] => j = k

\* C30: on a finite remote tree whose continuation links never lead back,
\* get_documents terminates whatever mix of 200 and other answers the listing
\* requests get, and it requests each folder page at most once.
C30_TerminatesEachPageOnce ==
    /\ [](op = "get_documents" => NoDuplicates(listed))
    /\ (op = "get_documents" /\ phase = "running") ~> (phase \in {"returned", "raised"})

C30_Witness ==
    /\ op = "get_documents"
    /\ phase = "returned"
    /\ Pg(1, 3) \in failed
    /\ Pg(2, 1) \in failed
    /\ Len(listed) = 6

(***************************************************************************)
(* Authentication: SharePointAuth.authenticate and the callback listener   *)
(***************************************************************************)
\* number of requests the listener may handle before it is shut down
MaxCallbacks == 2

\* auth.py:148
timeout == 300

\* authorization codes and error descriptions a callback request can carry
Codes == {"c1", "c2"}
ErrorDescriptions == {"d1", "d2"}

\* A request to the listener, by what do_GET looks at: whether the path has a
\* '?', and the values of the query parameters code, error, error_description
\* (<<>> when the parameter is absent)
CallbackRequests ==
    [query : BOOLEAN,
     code : {<<>>} \cup {<<c>> : c \in Codes},
     error : BOOLEAN,
     error_description : {<<>>} \cup {<<d>> : d \in ErrorDescriptions}]

\* auth.py:26-38: what a request does to server.auth_code / server.auth_error
do_GET(code, err, req) ==
    IF ~req.query THEN [auth_code |-> code, auth_error |-> err, wrote |-> FALSE]
    ELSE IF req.code # <<>>
         THEN [auth_code |-> req.code, auth_error |-> err, wrote |-> TRUE]
    ELSE IF req.error
         THEN [auth_code |-> code, wrote |-> TRUE,
               auth_error |-> IF req.error_description # <<>>
                              THEN req.error_description ELSE <<"Unknown error">>]
    ELSE [auth_code |-> code, auth_error |-> err, wrote |-> FALSE]

\* mutant: the loop has no budget
keeps_waiting_unbounded(code, err, w) == code = <<>> /\ err = <<>>

\* auth.py:150: the condition of the polling loop
keeps_waiting(code, err, w) == code = <<>> /\ err = <<>> /\ w < timeout

\* mutant: a recorded code is exchanged even when an error is recorded too
raises_oauth_error_unless_code(code, err) == err # <<>> /\ code = <<>>

\* auth.py:154: `if server.auth_error:`
raises_oauth_error(code, err) == err # <<>>

\* the token endpoint's answers to the code exchange: a status and whether the
\* body is a JSON object with an access_token; NetExc when requests.post raised
ExchangeAnswers ==
    {[status |-> 200, body |-> "token"], [status |-> 200, body |-> "json"],
     [status |-> 200, body |-> "garbage"],
     [status |-> 400, body |-> "invalid_grant"], [status |-> 500, body |-> "garbage"],
     [status |-> NetExc, body |-> ""]}

\* auth.py:218: self.token_response after the answer a; response.json() gives
\* the body when it is a JSON object ("token": with 'access_token', "json":
\* without) and raises before the assignment when it is not
assign_token_response(a, old) ==
    IF a.status = 200 /\ a.body \in {"token", "json"} THEN a.body ELSE old

\* mutant: any answer of the token endpoint is taken for a token
exchange_code_for_token_any(a) == TRUE

\* auth.py:215-229: the value _exchange_code_for_token returns
exchange_code_for_token(a) == a.status = 200 /\ a.body = "token"

\* how a status code reads in a message
StatusText(st) ==
    CASE st = 200 -> "200" [] st = 400 -> "400" [] st = 500 -> "500" [] OTHER -> ""

\* auth.py:155, 158, 162: the AuthenticationErrors raised inside the try block
OAuthError(err) == [kind |-> "AuthenticationError", msg |-> <<"OAuth error: ", err[1]>>]
TimeoutError == [kind |-> "AuthenticationError",
                 msg |-> <<"Authentication timeout - no response received">>]
ExchangeError == [kind |-> "AuthenticationError",
                  msg |-> <<"Failed to exchange authorization code for token">>]

\* mutant: an exception raised inside leaves authenticate() as it is
reraise_unwrapped(exc) == exc

\* auth.py:171-175: what leaves authenticate() for an exception raised inside
reraise(exc) ==
    IF exc.kind = "Exception"
    THEN [kind |-> "AuthenticationError", msg |-> <<"Authentication failed: ">> \o exc.msg]
    ELSE exc

\* mutant: the finally block does not stop the listener
shutdown_skipped(running) == running

\* auth.py:168: server.shutdown() returns once serve_forever has left its loop
shutdown(running) == FALSE

\* auth.py:105-145: everything up to the polling loop.  HTTPServer() raises
\* OSError when the port cannot be bound; the handler at 171-175 re-raises it.
CallAuthenticate ==
    /\ phase = "idle"
    /\ op' = "authenticate"
    /\ \E bind_ok \in BOOLEAN :
         IF bind_ok
         THEN /\ serving' = TRUE
              /\ auth_pc' = "wait"
              /\ phase' = "running"
              /\ UNCHANGED <<ret, message>>
         ELSE /\ phase' = "raised"
              /\ ret' = "AuthenticationError"
              /\ message' = reraise([kind |-> "Exception", msg |-> <<"OSError">>]).msg
              /\ UNCHANGED <<serving, auth_pc>>
    /\ auth_code' = <<>>
    /\ auth_error' = <<>>
    /\ waited' = 0
    /\ auth_before' = <<access_token, token_response>>
    /\ UNCHANGED <<handled, writes, exchanges, exchange_answer, error_at_check,
                   pending, token_set, token_response>>
    /\ UNCHANGED <<envvars, batchvars, dlvars, enumvars, purevars, extvars>>

\* the listener thread: serve_forever handles one request (auth.py:26-38)
ListenerHandle ==
    /\ serving
    /\ handled < MaxCallbacks
    /\ \E req \in CallbackRequests :
         LET r == do_GET(auth_code, auth_error, req) IN
         /\ auth_code' = r.auth_code
         /\ auth_error' = r.auth_error
         /\ writes' = IF r.wrote THEN writes + 1 ELSE writes
    /\ handled' = handled + 1
    /\ UNCHANGED <<auth_pc, serving, waited, exchanges, exchange_answer, error_at_check,
                   pending, message, token_set,
                   token_response, auth_before>>
    /\ UNCHANGED <<envvars, callvars, batchvars, dlvars, enumvars, purevars, extvars>>

\* auth.py:150-152: one evaluation of the loop condition and, when it holds,
\* one pass of the loop body
AuthPoll ==
    /\ auth_pc = "wait"
    /\ IF keeps_waiting(auth_code, auth_error, waited)
       THEN waited' = waited + 1 /\ UNCHANGED auth_pc
       ELSE auth_pc' = "check_error" /\ UNCHANGED waited
    /\ UNCHANGED <<serving, auth_code, auth_error, handled, writes, exchanges,
                   exchange_answer, error_at_check, pending, message, token_set,
                   token_response, auth_before>>
    /\ UNCHANGED <<envvars, callvars, batchvars, dlvars, enumvars, purevars, extvars>>

\* auth.py:154-155
AuthCheckError ==
    /\ auth_pc = "check_error"
    /\ error_at_check' = auth_error
    /\ IF raises_oauth_error(auth_code, auth_error)
       THEN pending' = OAuthError(auth_error) /\ auth_pc' = "finally"
       ELSE auth_pc' = "check_code" /\ UNCHANGED pending
    /\ UNCHANGED <<serving, auth_code, auth_error, waited, handled, writes, exchanges,
                   exchange_answer, message, token_set,
                   token_response, auth_before>>
    /\ UNCHANGED <<envvars, callvars, batchvars, dlvars, enumvars, purevars, extvars>>

\* auth.py:157-158
AuthCheckCode ==
    /\ auth_pc = "check_code"
    /\ IF auth_code = <<>>
       THEN pending' = TimeoutError /\ auth_pc' = "finally"
       ELSE auth_pc' = "exchange" /\ UNCHANGED pending
    /\ UNCHANGED <<serving, auth_code, auth_error, waited, handled, writes, exchanges,
                   exchange_answer, error_at_check, message, token_set,
                   token_response, auth_before>>
    /\ UNCHANGED <<envvars, callvars, batchvars, dlvars, enumvars, purevars, extvars>>

\* auth.py:161-165 with _exchange_code_for_token (177-229)
AuthExchange ==
    /\ auth_pc = "exchange"
    /\ exchanges' = Append(exchanges, auth_code[1])
    /\ \E a \in ExchangeAnswers :
         /\ exchange_answer' = <<a>>
         /\ IF exchange_code_for_token(a)
            THEN /\ access_token' = TRUE
                 /\ token_set' = TRUE
                 /\ pending' = [kind |-> "return", msg |-> <<>>]
            ELSE /\ pending' = ExchangeError
                 /\ UNCHANGED <<access_token, token_set>>
         /\ token_response' = assign_token_response(a, token_response)
    /\ auth_pc' = "finally"
    /\ UNCHANGED <<serving, auth_code, auth_error, waited, handled, writes,
                   error_at_check, message, auth_before>>
    /\ UNCHANGED <<site_id, bedrock, callvars, batchvars, dlvars, enumvars, purevars, extvars>>

\* an exception raised inside the try block (143-165) by something other than
\* the raise statements: webbrowser.open failing before the first poll, or a
\* KeyboardInterrupt delivered to the main flow
AuthInterrupt ==
    /\ auth_pc \in {"wait", "check_error", "check_code", "exchange"}
    /\ \E k \in {"KeyboardInterrupt", "Exception"} :
         /\ k = "Exception" => (auth_pc = "wait" /\ waited = 0)
         /\ pending' = [kind |-> k, msg |-> <<k>>]
    /\ auth_pc' = "finally"
    /\ UNCHANGED <<serving, auth_code, auth_error, waited, handled, writes, exchanges,
                   exchange_answer, error_at_check, message, token_set,
                   token_response, auth_before>>
    /\ UNCHANGED <<envvars, callvars, batchvars, dlvars, enumvars, purevars, extvars>>

\* auth.py:167-169: the finally block
AuthFinally ==
    /\ auth_pc = "finally"
    /\ serving' = shutdown(serving)
    /\ auth_pc' = "leave"
    /\ UNCHANGED <<auth_code, auth_error, waited, handled, writes, exchanges,
                   exchange_answer, error_at_check, pending, message, token_set,
                   token_response, auth_before>>
    /\ UNCHANGED <<envvars, callvars, batchvars, dlvars, enumvars, purevars, extvars>>

\* auth.py:165 and 171-175: authenticate() returns the token or raises
AuthLeave ==
    /\ auth_pc = "leave"
    /\ LET e == reraise(pending) IN
         /\ phase' = IF e.kind = "return" THEN "returned" ELSE "raised"
         /\ ret' = IF e.kind = "return" THEN "access_token" ELSE e.kind
         /\ message' = e.msg
    /\ auth_pc' = "done"
    /\ UNCHANGED <<serving, auth_code, auth_error, waited, handled, writes, exchanges,
                   exchange_answer, error_at_check, pending, token_set,
                   token_response, auth_before>>
    /\ UNCHANGED <<envvars, op, batchvars, dlvars, enumvars, purevars, extvars>>

InitAuth ==
    /\ access_token \in BOOLEAN
    /\ site_id = FALSE
    /\ bedrock = FALSE
    /\ op = ""
    /\ phase = "idle"
    /\ ret = ""
    /\ documents = <<>>
    /\ progress_callback = FALSE
    /\ i = 0
    /\ results = EmptyMap
    /\ progress = <<>>
    /\ attempted = <<>>
    /\ succeeded = {}
    /\ dl_pc = "idle"
    /\ dl_doc = NoDoc
    /\ attempt = 0
    /\ responses = <<>>
    /\ dl_result = ""
    /\ files = {}
    /\ ingested = {}
    /\ ingest_attempts = {}
    /\ remote_names = EmptyMap
    /\ events = <<>>
    /\ drives_answer = <<>>
    /\ drive_idx = 0
    /\ stack = <<>>
    /\ enum_documents = <<>>
    /\ listed = <<>>
    /\ failed = {}
    /\ InitAuthCore
    /\ token_response = IF access_token THEN "old" ELSE "None"
    /\ auth_before = <<access_token, token_response>>
    /\ InitPureVars
    /\ InitExtVars

NextAuth ==
    \/ CallAuthenticate
    \/ ListenerHandle
    \/ AuthPoll
    \/ AuthCheckError
    \/ AuthCheckCode
    \/ AuthExchange
    \/ AuthInterrupt
    \/ AuthFinally
    \/ AuthLeave

SpecAuth == InitAuth /\ [][NextAuth]_vars

(***************************************************************************)
(* Properties of the authentication flow                                   *)
(***************************************************************************)
\* the call of authenticate() has left (returned or raised)
AuthLeft == op = "authenticate" /\ phase \in {"returned", "raised"}

\* the elements of a message
Parts(msg) == {msg[k] : k \in DOMAIN msg}

\* C12: during one authentication attempt the recorded callback result is
\* written at most once: once the listener has recorded a code or an error, no
\* later request it handles before it is shut down changes the recorded result.
C12_RecordedResultWrittenOnce ==
    [][(serving /\ (auth_code # <<>> \/ auth_error # <<>>))
          => UNCHANGED <<auth_code, auth_error>>]_vars

\* C13: on every exit path of authenticate() after the listener was started,
\* the listener has been shut down when authenticate() returns or raises.
C13_ListenerShutDownOnExit ==
    AuthLeft => ~serving

\* authenticate() was interrupted while waiting, after the listener had
\* handled a request, and has raised with the listener stopped
C13_Witness ==
    /\ AuthLeft
    /\ ret = "KeyboardInterrupt"
    /\ handled > 0
    /\ waited > 0
    /\ ~serving

\* C14: the main flow never polls more than `timeout` times; when no callback
\* was recorded and nothing interrupted the wait, authenticate() raises the
\* timeout AuthenticationError after exactly `timeout` polls and has issued
\* no token-exchange request.
C14_TimeoutAfterBudget ==
    op = "authenticate" =>
        /\ waited <= timeout
        /\ (AuthLeft /\ writes = 0 /\ ret # "KeyboardInterrupt"
              /\ "Authentication failed: " \notin Parts(message))
             => /\ phase = "raised"
                /\ ret = "AuthenticationError"
                /\ message = TimeoutError.msg
        /\ (AuthLeft /\ message = TimeoutError.msg)
             => /\ waited = timeout
                /\ exchanges = <<>>
                /\ ~token_set

C14_Witness ==
    /\ AuthLeft
    /\ phase = "raised"
    /\ message = TimeoutError.msg
    /\ waited = timeout
    /\ handled = 0
    /\ exchanges = <<>>

\* the token endpoint answered the code exchange with a status other than 200
ExchangeRejected ==
    /\ exchange_answer # <<>>
    /\ exchange_answer[1].status \notin {200, NetExc}

\* C15 as stated: when the token endpoint answers the code exchange with a
\* status other than 200, authenticate() raises an AuthenticationError that
\* carries the status code and the response body, and sets no access token.
C15_ErrorCarriesStatusAndBody ==
    (AuthLeft /\ ExchangeRejected) =>
        /\ phase = "raised"
        /\ ret = "AuthenticationError"
        /\ StatusText(exchange_answer[1].status) \in Parts(message)
        /\ exchange_answer[1].body \in Parts(message)
        /\ ~token_set

\* C15 amended: when the token endpoint answers the code exchange with a
\* status other than 200, authenticate() raises the AuthenticationError with
\* the fixed message "Failed to exchange authorization code for token", which
\* carries neither the status code nor the response body, and sets no access
\* token.
C15_ExchangeFailureRaisesFixedError ==
    (AuthLeft /\ ExchangeRejected) =>
        /\ phase = "raised"
        /\ ret = "AuthenticationError"
        /\ message = ExchangeError.msg
        /\ StatusText(exchange_answer[1].status) \notin Parts(message)
        /\ exchange_answer[1].body \notin Parts(message)
        /\ ~token_set

C15_Witness ==
    /\ AuthLeft
    /\ exchange_answer = <<[status |-> 400, body |-> "invalid_grant"]>>
    /\ phase = "raised"
    /\ message = ExchangeError.msg
    /\ ~token_set

\* C16: when an error is recorded by the time the main flow reads the result
\* (line 154), authenticate() raises an AuthenticationError containing the
\* error description and never issues a token-exchange request, even if a
\* code was recorded in the same attempt.
C16_ErrorCallbackWins ==
    (op = "authenticate" /\ error_at_check # <<>>) =>
        /\ exchanges = <<>>
        /\ error_at_check[1] \in ErrorDescriptions \cup {"Unknown error"}
        /\ auth_pc \in {"finally", "leave", "done"}
        /\ AuthLeft => /\ phase = "raised"
                       /\ ret = "AuthenticationError"
                       /\ message = <<"OAuth error: ", error_at_check[1]>>
                       /\ ~token_set

\* an error description and a code were both recorded, and the error was raised
C16_Witness ==
    /\ AuthLeft
    /\ error_at_check = <<"d1">>
    /\ auth_code # <<>>
    /\ message = <<"OAuth error: ", "d1">>
    /\ exchanges = <<>>

\* the order of C27, but for who raises what
ExchangeInOrder ==
    /\ Len(exchanges) <= 1
    /\ exchanges # <<>> => (auth_code # <<>> /\ exchanges[1] \in Codes)
    /\ token_set => (exchange_answer # <<>> /\ exchange_answer[1].status = 200)
    /\ (AuthLeft /\ phase = "returned") => (token_set /\ ret = "access_token")

\* C27 as stated: authenticate() issues the token-exchange request at most
\* once per call and only after a callback carrying a code was recorded,
\* assigns access_token only after that request was answered with HTTP 200,
\* returns a token only in that case and raises AuthenticationError in every
\* other case.
C27_TokenOrAuthenticationError ==
    op = "authenticate" =>
        /\ ExchangeInOrder
        /\ (AuthLeft /\ phase # "returned") => (phase = "raised" /\ ret = "AuthenticationError")

\* C27 amended: as stated, except that a KeyboardInterrupt delivered while
\* authenticate() waits or exchanges leaves the call as KeyboardInterrupt (it
\* is not an Exception, so line 171 does not turn it into AuthenticationError);
\* every other call that returns no token raises AuthenticationError.
C27_TokenOrErrorUnlessInterrupted ==
    op = "authenticate" =>
        /\ ExchangeInOrder
        /\ (AuthLeft /\ phase # "returned") =>
              /\ phase = "raised"
              /\ ret = IF pending.kind = "KeyboardInterrupt" THEN "KeyboardInterrupt"
                       ELSE "AuthenticationError"

C27_Witness ==
    /\ AuthLeft
    /\ phase = "returned"
    /\ token_set
    /\ Len(exchanges) = 1
    /\ exchange_answer = <<[status |-> 200, body |-> "token"]>>
    /\ handled = MaxCallbacks

\* C29: a failed authenticate() call (timeout, error callback, non-200
\* exchange, or a 200 exchange answer without an access_token field) leaves
\* access_token and token_response as they were before the call, so that
\* is_authenticated() answers the same before and after.
C29_FailedCallChangesNothing ==
    (op = "authenticate" /\ AuthLeft /\ phase = "raised") =>
        /\ <<access_token, token_response>> = auth_before
        /\ ~token_set

(***************************************************************************)
(* The filename sanitizer: _sanitize_filename                              *)
(***************************************************************************)
\* Names are sequences of one-character strings.
\* longest name of the exhaustive family of inputs
MaxShort == 3

\* longest head and tail around the filler of a long input
MaxEdge == 2

\* scraper.py:451: the length limit
limit == 200

\* scraper.py:439: invalid_chars = '<>:"/\\|?*'
invalid_chars == {"<", ">", ":", "\"", "/", "\\", "|", "?", "*"}

\* scraper.py:446: the argument of str.strip
strip_chars == {".", " "}

\* scraper.py:436 and 450: 'unknown_file'
unknown_file == <<"u", "n", "k", "n", "o", "w", "n", "_", "f", "i", "l", "e">>

\* the characters inputs are made of: the reserved ones, the stripped ones,
\* other whitespace, and ordinary ones
Chars == invalid_chars \cup strip_chars \cup {"\t", "\n", "a", "_"}
EdgeChars == {"a", ".", " ", "\t"}

\* n copies of the character c
Fill(c, n) == [k \in 1..n |-> c]

\* Inputs: every name of up to MaxShort characters, and long names around the
\* length limit: a head, a filler of ordinary characters, and a tail
ShortNames == SeqsUpTo(Chars, MaxShort)
Edges == SeqsUpTo(EdgeChars, MaxEdge)
LongNames == {h \o Fill("a", n) \o t : h \in Edges, t \in Edges,
                                      n \in (limit - 3)..(limit + 3)}
Filenames == ShortNames \cup LongNames

\* mutant: only the first invalid character is replaced
replace_invalid_first_only(name) ==
    LET bad == {k \in DOMAIN name : name[k] \in invalid_chars} IN
    [k \in DOMAIN name |->
        IF k \in bad /\ (\A j \in bad : k <= j) THEN "_" ELSE name[k]]

\* scraper.py:442-443: every invalid character is replaced by '_'
replace_invalid(name) ==
    [k \in DOMAIN name |-> IF name[k] \in invalid_chars THEN "_" ELSE name[k]]

\* the first position at or after k whose character is not in chars
RECURSIVE FirstKept(_, _, _)
FirstKept(name, chars, k) ==
    IF k > Len(name) THEN k
    ELSE IF name[k] \in chars THEN FirstKept(name, chars, k + 1) ELSE k

\* the last position at or before k whose character is not in chars
RECURSIVE LastKept(_, _, _)
LastKept(name, chars, k) ==
    IF k < 1 THEN k
    ELSE IF name[k] \in chars THEN LastKept(name, chars, k - 1) ELSE k

\* str.strip(chars)
strip(name, chars) ==
    SubSeq(name, FirstKept(name, chars, 1), LastKept(name, chars, Len(name)))

\* str.rfind(c), counted from 1, 0 when c does not occur
rfind(name, c) ==
    LET at == {k \in DOMAIN name : name[k] = c} IN
    IF at = {} THEN 0 ELSE CHOOSE k \in at : \A j \in at : j <= k

\* os.path.splitext: the extension starts at the last dot of the last path
\* component, unless only dots precede it in that component
splitext(name) ==
    LET sepIndex == rfind(name, "/")
        dotIndex == rfind(name, ".")
    IN  IF dotIndex > sepIndex
           /\ \E k \in (sepIndex + 1)..(dotIndex - 1) : name[k] # "."
        THEN [name |-> SubSeq(name, 1, dotIndex - 1),
              ext |-> SubSeq(name, dotIndex, Len(name))]
        ELSE [name |-> name, ext |-> <<>>]

\* the slice s[:n] of Python, n of either sign
slice_to(name, n) ==
    IF n >= 0 THEN SubSeq(name, 1, IF n < Len(name) THEN n ELSE Len(name))
    ELSE SubSeq(name, 1, IF Len(name) + n > 0 THEN Len(name) + n ELSE 0)

\* scraper.py:433-455 (sharepoint_doc_scraper.py:586-616 has the same body)
sanitize_filename(name) ==
    IF name = <<>> THEN unknown_file
    ELSE LET sanitized == strip(replace_invalid(name), strip_chars) IN
         IF sanitized = <<>> THEN unknown_file
         ELSE IF Len(sanitized) > limit
              THEN LET parts == splitext(sanitized)
                   IN  slice_to(parts.name, limit - Len(parts.ext)) \o parts.ext
              ELSE sanitized

\* _sanitize_filename(filename)
SanitizeOnce ==
    /\ applied = 0
    /\ once' = sanitize_filename(filename)
    /\ applied' = 1
    /\ UNCHANGED <<filename, twice>>
    /\ UNCHANGED <<envvars, callvars, batchvars, dlvars, enumvars, authvars, extvars>>

\* _sanitize_filename applied to its own result
SanitizeAgain ==
    /\ applied = 1
    /\ twice' = sanitize_filename(once)
    /\ applied' = 2
    /\ UNCHANGED <<filename, once>>
    /\ UNCHANGED <<envvars, callvars, batchvars, dlvars, enumvars, authvars, extvars>>

InitSanitize ==
    /\ filename \in Filenames
    /\ applied = 0
    /\ once = <<>>
    /\ twice = <<>>
    /\ access_token = FALSE
    /\ site_id = FALSE
    /\ bedrock = FALSE
    /\ op = ""
    /\ phase = "idle"
    /\ ret = ""
    /\ documents = <<>>
    /\ progress_callback = FALSE
    /\ i = 0
    /\ results = EmptyMap
    /\ progress = <<>>
    /\ attempted = <<>>
    /\ succeeded = {}
    /\ dl_pc = "idle"
    /\ dl_doc = NoDoc
    /\ attempt = 0
    /\ responses = <<>>
    /\ dl_result = ""
    /\ files = {}
    /\ ingested = {}
    /\ ingest_attempts = {}
    /\ remote_names = EmptyMap
    /\ events = <<>>
    /\ drives_answer = <<>>
    /\ drive_idx = 0
    /\ stack = <<>>
    /\ enum_documents = <<>>
    /\ listed = <<>>
    /\ failed = {}
    /\ InitAuthVars
    /\ InitExtVars

NextSanitize ==
    \/ SanitizeOnce
    \/ SanitizeAgain

SpecSanitize == InitSanitize /\ [][NextSanitize]_vars

(***************************************************************************)
(* Properties of the filename sanitizer                                    *)
(***************************************************************************)
\* C17: for every input, the result of _sanitize_filename contains none of
\* the nine reserved characters < > : " / \ | ? *
C17_NoReservedCharacter ==
    /\ applied >= 1 => \A k \in DOMAIN once : once[k] \notin invalid_chars
    /\ applied = 2 => \A k \in DOMAIN twice : twice[k] \notin invalid_chars

\* a name with two reserved characters, both replaced
C17_Witness ==
    /\ applied = 1
    /\ filename = <<"<", "a", "\\">>
    /\ once = <<"_", "a", "_">>

\* C18: for every input, also one whose extension is longer than the limit,
\* the result of _sanitize_filename has at most 200 characters.
C18_AtMostLimitCharacters ==
    applied >= 1 => Len(once) <= limit

\* C19: _sanitize_filename is idempotent, also on inputs that are truncated
\* at the length limit.
C19_Idempotent ==
    applied = 2 => twice = once

\* all characters of the name are whitespace
IsWhitespace(name) == \A k \in DOMAIN name : name[k] \in {" ", "\t", "\n"}

\* C20: _sanitize_filename returns 'unknown_file' for the empty string, for
\* every input made of whitespace only (spaces, tabs, newlines), and for every
\* input that is empty after replacing the reserved characters and stripping
\* dots and whitespace.
C20_SentinelForBlankNames ==
    (applied >= 1
     /\ (\/ filename = <<>>
         \/ IsWhitespace(filename)
         \/ strip(replace_invalid(filename), {".", " ", "\t", "\n"}) = <<>>))
        => once = unknown_file

(***************************************************************************)
(* The metadata snapshot: save_documents_metadata, load_documents_metadata *)
(***************************************************************************)
\* longest descriptor list saved
MaxMeta == 2

\* Python values that json can write, as records: None, an int, a str (a
\* sequence of characters), a list, a dict (its items in insertion order)
JNull == [t |-> "null", s |-> <<>>, n |-> 0, items |-> <<>>]
JInt(n) == [t |-> "int", s |-> <<>>, n |-> n, items |-> <<>>]
JStr(s) == [t |-> "str", s |-> s, n |-> 0, items |-> <<>>]
JList(items) == [t |-> "list", s |-> <<>>, n |-> 0, items |-> items]
JDict(items) == [t |-> "dict", s |-> <<>>, n |-> 0, items |-> items]
\* json.load raised
JError == [t |-> "error", s |-> <<>>, n |-> 0, items |-> <<>>]
Item(k, v) == [k |-> k, v |-> v]

\* the keys of the snapshot and of a descriptor, as character sequences
K_timestamp == <<"t", "s">>
K_total_documents == <<"t", "d">>
K_documents == <<"d", "o", "c", "s">>
K_name == <<"n", "a", "m", "e">>
K_size == <<"s", "i", "z", "e">>
K_download_url == <<"u", "r", "l">>

\* datetime.now().isoformat()
Now == <<"2", "0", "2", "4", "-", "0", "1", "T", "0", "0", ":", "0", "0">>

\* names, sizes and download URLs of the descriptors saved
MetaNames == {<<"a">>, <<"a", "\"", "b">>, <<"\\", "n">>, <<"a", "\n", "\t">>, <<>>}
MetaSizes == {0, 7, 120}
MetaUrls == {JNull, JStr(<<"h", ":", "/", "/", "u", ",", "{">>)}

\* the descriptors of scraper.py:227-241, reduced to three keys of three types
MetaDescriptors ==
    {JDict(<<Item(K_name, JStr(nm)), Item(K_size, JInt(sz)), Item(K_download_url, u)>>) :
        nm \in MetaNames, sz \in MetaSizes, u \in MetaUrls}

Digits == <<"0", "1", "2", "3", "4", "5", "6", "7", "8", "9">>
IsDigit(c) == \E d \in 1..10 : Digits[d] = c
DigitValue(c) == (CHOOSE d \in 1..10 : Digits[d] = c) - 1

\* the decimal digits of n
RECURSIVE int_repr(_)
int_repr(n) ==
    IF n < 10 THEN <<Digits[n + 1]>>
    ELSE int_repr(n \div 10) \o <<Digits[(n % 10) + 1]>>

\* mutant: a backslash is written as it is
escape_char_raw_backslash(c) ==
    IF c = "\"" THEN <<"\\", "\"">>
    ELSE IF c = "\n" THEN <<"\\", "n">>
    ELSE IF c = "\t" THEN <<"\\", "t">>
    ELSE <<c>>

\* json.dump: how a character of a string is written (ensure_ascii=False)
escape_char(c) ==
    IF c = "\"" THEN <<"\\", "\"">>
    ELSE IF c = "\\" THEN <<"\\", "\\">>
    ELSE IF c = "\n" THEN <<"\\", "n">>
    ELSE IF c = "\t" THEN <<"\\", "t">>
    ELSE <<c>>

RECURSIVE escape(_)
escape(s) == IF s = <<>> THEN <<>> ELSE escape_char(Head(s)) \o escape(Tail(s))

\* json.dump(value, f, indent=2, ensure_ascii=False): the text written
RECURSIVE dumps(_)
RECURSIVE dumps_elements(_, _)
RECURSIVE dumps_items(_, _)
dumps_string(s) == <<"\"">> \o escape(s) \o <<"\"">>
dumps_elements(items, k) ==
    IF k > Len(items) THEN <<>>
    ELSE (IF k > 1 THEN <<",", "\n">> ELSE <<"\n">>)
         \o dumps(items[k]) \o dumps_elements(items, k + 1)
dumps_items(items, k) ==
    IF k > Len(items) THEN <<>>
    ELSE (IF k > 1 THEN <<",", "\n">> ELSE <<"\n">>)
         \o dumps_string(items[k].k) \o <<":", " ">> \o dumps(items[k].v)
         \o dumps_items(items, k + 1)
dumps(v) ==
    CASE v.t = "null" -> <<"n", "u", "l", "l">>
      [] v.t = "int" -> int_repr(v.n)
      [] v.t = "str" -> dumps_string(v.s)
      [] v.t = "list" -> IF v.items = <<>> THEN <<"[", "]">>
                         ELSE <<"[">> \o dumps_elements(v.items, 1) \o <<"\n", "]">>
      [] OTHER -> IF v.items = <<>> THEN <<"{", "}">>
                  ELSE <<"{">> \o dumps_items(v.items, 1) \o <<"\n", "}">>

\* the character at position p of the text, "EOF" past its end
At(text, p) == IF p \in 1..Len(text) THEN text[p] ELSE "EOF"
Parsed(v, p) == [v |-> v, p |-> p]

\* json.load: whitespace between tokens is skipped
RECURSIVE skip_ws(_, _)
skip_ws(text, p) ==
    IF At(text, p) \in {" ", "\n", "\t"} THEN skip_ws(text, p + 1) ELSE p

\* json.load: a string, read from the character after its opening quote
RECURSIVE parse_string(_, _, _)
parse_string(text, p, acc) ==
    LET c == At(text, p) IN
    IF c = "EOF" \/ c = "\n" \/ c = "\t" THEN Parsed(JError, p)
    ELSE IF c = "\"" THEN Parsed(JStr(acc), p + 1)
    ELSE IF c = "\\"
         THEN LET d == At(text, p + 1) IN
              IF d = "\"" \/ d = "\\" THEN parse_string(text, p + 2, Append(acc, d))
              ELSE IF d = "n" THEN parse_string(text, p + 2, Append(acc, "\n"))
              ELSE IF d = "t" THEN parse_string(text, p + 2, Append(acc, "\t"))
              ELSE Parsed(JError, p)
    ELSE parse_string(text, p + 1, Append(acc, c))

\* json.load: an integer
RECURSIVE parse_int(_, _, _)
parse_int(text, p, acc) ==
    IF IsDigit(At(text, p))
    THEN parse_int(text, p + 1, acc * 10 + DigitValue(At(text, p)))
    ELSE Parsed(JInt(acc), p)

\* json.load: any value; the elements of a list; the items of an object
RECURSIVE parse_value(_, _)
RECURSIVE parse_elements(_, _, _)
RECURSIVE parse_items(_, _, _)
parse_value(text, p0) ==
    LET p == skip_ws(text, p0)
        c == At(text, p)
    IN  IF c = "\"" THEN parse_string(text, p + 1, <<>>)
        ELSE IF IsDigit(c) THEN parse_int(text, p, 0)
        ELSE IF c = "n"
             THEN IF <<At(text, p + 1), At(text, p + 2), At(text, p + 3)>> = <<"u", "l", "l">>
                  THEN Parsed(JNull, p + 4) ELSE Parsed(JError, p)
        ELSE IF c = "[" THEN parse_elements(text, skip_ws(text, p + 1), <<>>)
        ELSE IF c = "{" THEN parse_items(text, skip_ws(text, p + 1), <<>>)
        ELSE Parsed(JError, p)
parse_elements(text, p, acc) ==
    IF At(text, p) = "]" /\ acc = <<>> THEN Parsed(JList(acc), p + 1)
    ELSE LET r == parse_value(text, p)
             q == skip_ws(text, r.p)
         IN  IF r.v.t = "error" THEN r
             ELSE IF At(text, q) = ","
                  THEN parse_elements(text, skip_ws(text, q + 1), Append(acc, r.v))
             ELSE IF At(text, q) = "]" THEN Parsed(JList(Append(acc, r.v)), q + 1)
             ELSE Parsed(JError, q)
parse_items(text, p, acc) ==
    IF At(text, p) = "}" /\ acc = <<>> THEN Parsed(JDict(acc), p + 1)
    ELSE IF At(text, p) # "\"" THEN Parsed(JError, p)
    ELSE LET k == parse_string(text, p + 1, <<>>)
             colon == skip_ws(text, k.p)
         IN  IF k.v.t = "error" \/ At(text, colon) # ":" THEN Parsed(JError, colon)
             ELSE LET r == parse_value(text, colon + 1)
                      q == skip_ws(text, r.p)
                      item == Item(k.v.s, r.v)
                  IN  IF r.v.t = "error" THEN r
                      ELSE IF At(text, q) = ","
                           THEN parse_items(text, skip_ws(text, q + 1), Append(acc, item))
                      ELSE IF At(text, q) = "}" THEN Parsed(JDict(Append(acc, item)), q + 1)
                      ELSE Parsed(JError, q)

\* json.load(f): the value the text denotes, JError when it denotes none
loads(text) ==
    LET r == parse_value(text, 1) IN
    IF r.v.t # "error" /\ skip_ws(text, r.p) > Len(text) THEN r.v ELSE JError

\* dict[key] for a dict given by its items (the last item of that key)
HasKey(d, key) == \E k \in DOMAIN d.items : d.items[k].k = key
Lookup(d, key) ==
    d.items[CHOOSE k \in DOMAIN d.items :
               /\ d.items[k].k = key
               /\ \A j \in DOMAIN d.items : d.items[j].k = key => j <= k].v

\* utils.py:66-73: the text save_documents_metadata writes
save_documents_metadata(docs) ==
    dumps(JDict(<<Item(K_timestamp, JStr(Now)),
                  Item(K_total_documents, JInt(Len(docs))),
                  Item(K_documents, JList(docs))>>))

\* utils.py:91-104: what load_documents_metadata returns for a file's text
load_documents_metadata(text) ==
    LET data == loads(text) IN
    IF data.t = "dict" /\ HasKey(data, K_documents) THEN Lookup(data, K_documents)
    ELSE IF data.t = "list" THEN data
    ELSE JList(<<>>)

\* save_documents_metadata(documents, file)
SaveMetadata ==
    /\ meta_pc = "new"
    /\ meta_file' = save_documents_metadata(meta_documents)
    /\ meta_pc' = "saved"
    /\ UNCHANGED <<meta_documents, meta_loaded>>
    /\ UNCHANGED <<envvars, callvars, batchvars, dlvars, enumvars, authvars, purevars, destvars,
                 sessvars>>

\* a file written by an earlier version: the bare array of the descriptors
WriteBareArray ==
    /\ meta_pc = "new"
    /\ meta_file' = dumps(JList(meta_documents))
    /\ meta_pc' = "array"
    /\ UNCHANGED <<meta_documents, meta_loaded>>
    /\ UNCHANGED <<envvars, callvars, batchvars, dlvars, enumvars, authvars, purevars, destvars,
                 sessvars>>

\* load_documents_metadata(file)
LoadMetadata ==
    /\ meta_pc \in {"saved", "array"}
    /\ meta_loaded' = load_documents_metadata(meta_file)
    /\ meta_pc' = IF meta_pc = "saved" THEN "loaded" ELSE "loaded_array"
    /\ UNCHANGED <<meta_documents, meta_file>>
    /\ UNCHANGED <<envvars, callvars, batchvars, dlvars, enumvars, authvars, purevars, destvars,
                 sessvars>>

InitMetadata ==
    /\ meta_pc = "new"
    /\ meta_documents \in SeqsUpTo(MetaDescriptors, MaxMeta)
    /\ meta_file = <<>>
    /\ meta_loaded = <<>>
    /\ InitPureVars
    /\ InitAuthVars
    /\ InitDestVars
    /\ InitSessVars
    /\ access_token = FALSE
    /\ site_id = FALSE
    /\ bedrock = FALSE
    /\ op = ""
    /\ phase = "idle"
    /\ ret = ""
    /\ documents = <<>>
    /\ progress_callback = FALSE
    /\ i = 0
    /\ results = EmptyMap
    /\ progress = <<>>
    /\ attempted = <<>>
    /\ succeeded = {}
    /\ dl_pc = "idle"
    /\ dl_doc = NoDoc
    /\ attempt = 0
    /\ responses = <<>>
    /\ dl_result = ""
    /\ files = {}
    /\ ingested = {}
    /\ ingest_attempts = {}
    /\ remote_names = EmptyMap
    /\ events = <<>>
    /\ drives_answer = <<>>
    /\ drive_idx = 0
    /\ stack = <<>>
    /\ enum_documents = <<>>
    /\ listed = <<>>
    /\ failed = {}

NextMetadata ==
    \/ SaveMetadata
    \/ WriteBareArray
    \/ LoadMetadata

SpecMetadata == InitMetadata /\ [][NextMetadata]_vars

(***************************************************************************)
(* Properties of the metadata snapshot                                     *)
(***************************************************************************)
\* C21: for a non-empty descriptor list, load_documents_metadata applied to
\* the file written by save_documents_metadata returns the list, element by
\* element and field by field, in the same order; a file holding the bare
\* JSON array of the descriptors loads to that same array.
C21_MetadataRoundTrip ==
    (meta_pc \in {"loaded", "loaded_array"} /\ meta_documents # <<>>) =>
        /\ meta_loaded.t = "list"
        /\ Len(meta_loaded.items) = Len(meta_documents)
        /\ \A k \in DOMAIN meta_documents :
             /\ meta_loaded.items[k].t = "dict"
             /\ Len(meta_loaded.items[k].items) = Len(meta_documents[k].items)
             /\ \A f \in DOMAIN meta_documents[k].items :
                  meta_loaded.items[k].items[f] = meta_documents[k].items[f]

\* two descriptors, the first with a quote in its name and no download URL,
\* saved and loaded back
C21_Witness ==
    /\ meta_pc = "loaded"
    /\ Len(meta_documents) = 2
    /\ Lookup(meta_documents[1], K_name) = JStr(<<"a", "\"", "b">>)
    /\ Lookup(meta_documents[1], K_download_url) = JNull
    /\ Lookup(meta_documents[2], K_size) = JInt(120)
    /\ meta_loaded = JList(meta_documents)

(***************************************************************************)
(* The destination of a download: SharePointScraper.download_document      *)
(***************************************************************************)
\* longest folder path of a descriptor, in characters
MaxPath == 3

\* the folder paths, libraries and safe names of the descriptors
PathChars == {"a", "b", "/", "<"}
FolderPaths == SeqsUpTo(PathChars, MaxPath)
Libraries == {<<"L">>, <<"L", ":", "1">>}
SafeNames == {<<"f">>}

\* str.split(sep) of a character sequence
RECURSIVE split(_, _, _, _)
split(s, sep, k, acc) ==
    IF k > Len(s) THEN <<acc>>
    ELSE IF s[k] = sep THEN <<acc>> \o split(s, sep, k + 1, <<>>)
    ELSE split(s, sep, k + 1, Append(acc, s[k]))

\* the components pathlib adds for Path(...) / text: the non-empty pieces
\* between slashes
RECURSIVE NonEmpty(_)
NonEmpty(parts) ==
    IF parts = <<>> THEN <<>>
    ELSE IF Head(parts) = <<>> THEN NonEmpty(Tail(parts))
    ELSE <<Head(parts)>> \o NonEmpty(Tail(parts))
path_parts(text) == NonEmpty(split(text, "/", 1, <<>>))

\* scraper.py:273-276: the directory of the file below download_path
library_path(doc) ==
    path_parts(sanitize_filename(doc.library))
    \o (IF doc.path # <<>> THEN path_parts(sanitize_filename(doc.path)) ELSE <<>>)

\* scraper.py:281-282: file_path below download_path
file_path(doc) == library_path(doc) \o path_parts(doc.safe_name)

\* download_document up to line 282
ComputeDestination ==
    /\ dest_pc = "new"
    /\ dest_path' = file_path(dest_doc)
    /\ dest_pc' = "computed"
    /\ UNCHANGED dest_doc
    /\ UNCHANGED <<envvars, callvars, batchvars, dlvars, enumvars, authvars, purevars, metavars,
                 sessvars>>

InitDestination ==
    /\ dest_pc = "new"
    /\ dest_doc \in [library : Libraries, path : FolderPaths, safe_name : SafeNames]
    /\ dest_path = <<>>
    /\ InitMetaVars
    /\ InitSessVars
    /\ InitPureVars
    /\ InitAuthVars
    /\ access_token = FALSE
    /\ site_id = FALSE
    /\ bedrock = FALSE
    /\ op = ""
    /\ phase = "idle"
    /\ ret = ""
    /\ documents = <<>>
    /\ progress_callback = FALSE
    /\ i = 0
    /\ results = EmptyMap
    /\ progress = <<>>
    /\ attempted = <<>>
    /\ succeeded = {}
    /\ dl_pc = "idle"
    /\ dl_doc = NoDoc
    /\ attempt = 0
    /\ responses = <<>>
    /\ dl_result = ""
    /\ files = {}
    /\ ingested = {}
    /\ ingest_attempts = {}
    /\ remote_names = EmptyMap
    /\ events = <<>>
    /\ drives_answer = <<>>
    /\ drive_idx = 0
    /\ stack = <<>>
    /\ enum_documents = <<>>
    /\ listed = <<>>
    /\ failed = {}

NextDestination ==
    \/ ComputeDestination

SpecDestination == InitDestination /\ [][NextDestination]_vars

\* the components of a slash-separated folder path, each sanitized
RECURSIVE SanitizedEach(_)
SanitizedEach(parts) ==
    IF parts = <<>> THEN <<>>
    ELSE <<sanitize_filename(Head(parts))>> \o SanitizedEach(Tail(parts))

\* a folder path as the enumerator builds it: names joined by single slashes
IsFolderPath(text) ==
    LET parts == split(text, "/", 1, <<>>) IN
    \A k \in DOMAIN parts : parts[k] # <<>>

\* C22: download_document stores a file at destinationRoot / sanitize(library)
\* / one nested directory per component of the slash-separated folder path,
\* each component sanitized / safe_name; a descriptor with folder path 'a/b'
\* is written under directory 'a' then 'b'.
C22_OneDirectoryPerPathComponent ==
    (dest_pc = "computed" /\ IsFolderPath(dest_doc.path)) =>
        dest_path = <<sanitize_filename(dest_doc.library)>>
                    \o SanitizedEach(split(dest_doc.path, "/", 1, <<>>))
                    \o <<dest_doc.safe_name>>

(***************************************************************************)
(* A scraper session: the constructor, authenticate, site resolution       *)
(* (_setup_site_connection), test_connection and get_documents             *)
(***************************************************************************)
\* scraper.py:84
site_max_retries == 3

\* auth.access_token: None, the empty string, or a token
TokenValues == {"None", "", "token"}

\* The answers to the site lookup.  The body of an HTTP response is a JSON
\* object with a non-empty 'id', with an empty 'id', without 'id', or no JSON
\* at all (an HTML error page).
SiteAnswers ==
    {[status |-> 200, body |-> b] : b \in {"id", "empty_id", "no_id", "text"}}
    \cup {[status |-> st, body |-> b] : st \in {403, 404, 500}, b \in {"no_id", "text"}}
    \cup {[status |-> NetExc, body |-> ""]}

\* response.json() on a body that is not JSON raises
\* requests.exceptions.JSONDecodeError, a RequestException, from requests 2.27
\* on and a plain ValueError before; the package pins no version.
JsonErrors == {"RequestException", "ValueError"}

\* auth.py:247
is_authenticated(token) == token # "None"

\* auth.py:259-260: TRUE when the headers are returned, FALSE when
\* AuthenticationError is raised (`if not self.access_token`)
get_auth_headers(token) == token \notin {"None", ""}

\* `not self.site_id` (scraper.py:124, 165)
has_site(site) == site \notin {"None", ""}

\* scraper.py:86-99: what the body of the inner try raises ("" when it
\* returns True)
site_raises(a, je) ==
    IF a.status = NetExc THEN "RequestException"
    ELSE IF a.status = 200
         THEN (IF a.body = "text" THEN je ELSE IF a.body = "no_id" THEN "KeyError" ELSE "")
    ELSE IF a.status \in {403, 404} THEN "SharePointError"
    ELSE IF a.body = "text" THEN je ELSE "APIError"

\* scraper.py:85-111: one pass of the retry loop; "retry" goes to the next pass
site_attempt_result(a, att, je) ==
    LET raised == site_raises(a, je) IN
    IF raised = "" THEN "True"
    ELSE IF raised = "RequestException"
         THEN (IF att = site_max_retries - 1 THEN "False" ELSE "retry")
    ELSE "False"

\* scraper.py:61-65: the call of _setup_site_connection with the token t
EnterSetupSite(t) ==
    /\ site_before' = session_site
    /\ site_responses' = <<>>
    /\ site_attempt' = 0
    /\ IF get_auth_headers(t)
       THEN sess_pc' = "site_request" /\ site_result' = ""
       ELSE sess_pc' = "idle" /\ site_result' = "False"

\* the record of the last resolution is dropped when another operation starts
ForgetResolution ==
    /\ site_before' = session_site
    /\ site_responses' = <<>>
    /\ site_attempt' = 0
    /\ site_result' = ""

\* scraper.py:23-45: __init__ with the auth object handed in
Construct ==
    /\ sess_pc = "new"
    /\ IF is_authenticated(session_token)
       THEN EnterSetupSite(session_token)
       ELSE /\ sess_pc' = "idle"
            /\ UNCHANGED <<site_before, site_responses, site_attempt, site_result>>
    /\ UNCHANGED <<session_token, session_site, json_error>>
    /\ UNCHANGED <<envvars, callvars, batchvars, dlvars, enumvars, authvars, purevars, metavars,
                   destvars>>

\* scraper.py:43-59: auth.authenticate() assigns access_token from the token
\* response and returns, or raises and leaves access_token alone
Authenticate ==
    /\ sess_pc = "idle" /\ phase = "idle"
    /\ \E outcome \in TokenValues \cup {"raise"} :
         IF outcome = "raise"
         THEN /\ UNCHANGED <<session_token, sess_pc>>
              /\ ForgetResolution
         ELSE /\ session_token' = outcome
              /\ EnterSetupSite(outcome)
    /\ UNCHANGED <<session_site, json_error>>
    /\ UNCHANGED <<envvars, callvars, batchvars, dlvars, enumvars, authvars, purevars, metavars,
                   destvars>>

\* scraper.py:85-111: one lookup request and what the loop does with its answer
SiteRequest ==
    /\ sess_pc = "site_request"
    /\ \E a \in SiteAnswers :
         LET r == site_attempt_result(a, site_attempt, json_error) IN
         /\ site_responses' = Append(site_responses, a)
         /\ IF r = "retry"
            THEN /\ site_attempt' = site_attempt + 1
                 /\ UNCHANGED <<sess_pc, site_result, session_site>>
            ELSE /\ sess_pc' = "idle"
                 /\ site_result' = r
                 /\ session_site' = IF r = "True"
                                    THEN (IF a.body = "id" THEN "site" ELSE "")
                                    ELSE session_site
                 /\ UNCHANGED site_attempt
    /\ UNCHANGED <<session_token, site_before, json_error>>
    /\ UNCHANGED <<envvars, callvars, batchvars, dlvars, enumvars, authvars, purevars, metavars,
                   destvars>>

\* scraper.py:113-156
TestConnection ==
    /\ sess_pc = "idle" /\ phase = "idle"
    /\ op' = "test_connection"
    /\ phase' = "returned"
    /\ IF is_authenticated(session_token) /\ has_site(session_site)
          /\ get_auth_headers(session_token)
       THEN \E a \in ListAnswers, b \in ListAnswers :
              ret' = IF a = 200 /\ b = 200 THEN "True" ELSE "False"
       ELSE ret' = "False"
    /\ ForgetResolution
    /\ UNCHANGED <<session_token, session_site, sess_pc, json_error>>
    /\ UNCHANGED <<envvars, batchvars, dlvars, enumvars, authvars, purevars, metavars, destvars>>

\* scraper.py:158-183: get_documents up to the loop over the drives
SessionGetDocuments ==
    /\ sess_pc = "idle" /\ phase = "idle"
    /\ op' = "get_documents"
    /\ ResetEnum
    /\ IF ~enum_guard(is_authenticated(session_token), has_site(session_site))
       THEN /\ phase' = guard_failure("get_documents")
            /\ ret' = failure_value("get_documents")
            /\ drives_answer' = <<>>
       ELSE IF ~get_auth_headers(session_token)
       THEN /\ phase' = "raised"
            /\ ret' = "SharePointError"
            /\ drives_answer' = <<>>
       ELSE \E a \in ListAnswers :
              /\ drives_answer' = <<a>>
              /\ IF a = 200
                 THEN phase' = "running" /\ UNCHANGED ret
                 ELSE /\ phase' = drives_failure("get_documents")
                      /\ ret' = failure_value("get_documents")
    /\ ForgetResolution
    /\ UNCHANGED <<session_token, session_site, sess_pc, json_error>>
    /\ UNCHANGED <<envvars, batchvars, dlvars, remote_names, authvars, purevars, metavars,
                   destvars>>

\* the caller takes the result of test_connection or get_documents
SessionLeave ==
    /\ sess_pc = "idle"
    /\ phase \in {"returned", "raised"}
    /\ phase' = "idle"
    /\ op' = ""
    /\ ret' = ""
    /\ ResetEnum
    /\ drives_answer' = <<>>
    /\ UNCHANGED <<envvars, batchvars, dlvars, remote_names, authvars, purevars, extvars>>

InitSession ==
    /\ session_token \in TokenValues
    /\ session_site = "None"
    /\ sess_pc = "new"
    /\ site_attempt = 0
    /\ site_responses = <<>>
    /\ site_result = ""
    /\ site_before = "None"
    /\ json_error \in JsonErrors
    /\ InitMetaVars
    /\ InitDestVars
    /\ InitPureVars
    /\ InitAuthVars
    /\ access_token = FALSE
    /\ site_id = FALSE
    /\ bedrock = FALSE
    /\ op = ""
    /\ phase = "idle"
    /\ ret = ""
    /\ documents = <<>>
    /\ progress_callback = FALSE
    /\ i = 0
    /\ results = EmptyMap
    /\ progress = <<>>
    /\ attempted = <<>>
    /\ succeeded = {}
    /\ dl_pc = "idle"
    /\ dl_doc = NoDoc
    /\ attempt = 0
    /\ responses = <<>>
    /\ dl_result = ""
    /\ files = {}
    /\ ingested = {}
    /\ ingest_attempts = {}
    /\ remote_names = [f \in FolderIds \cup NamedFiles |->
                          CASE f = "A" -> <<"A">> [] f = "B" -> <<"B">> [] f = "C" -> <<"C">>
                            [] OTHER -> <<"b">>]
    /\ events = <<>>
    /\ drives_answer = <<>>
    /\ drive_idx = 0
    /\ stack = <<>>
    /\ enum_documents = <<>>
    /\ listed = <<>>
    /\ failed = {}

NextSession ==
    \/ Construct
    \/ Authenticate
    \/ SiteRequest
    \/ TestConnection
    \/ SessionGetDocuments
    \/ ScanDrive
    \/ ScanRequest
    \/ ScanItem
    \/ ScanPageEnd
    \/ GetDocumentsReturn
    \/ SessionLeave

SpecSession == InitSession /\ [][NextSession]_vars

(***************************************************************************)
(* Properties of the scraper session                                       *)
(***************************************************************************)
\* C26: site resolution issues at most 3 lookup requests; a further request
\* follows only a request that raised a network exception, never an HTTP
\* response (a 403, 404 or other non-200 response ends the resolution after
\* that one request); whenever resolution fails site_id is left unset.
C26_RetryOnlyAfterNetworkException ==
    /\ Len(site_responses) <= 3
    /\ \A k \in 1..(Len(site_responses) - 1) : site_responses[k].status = NetExc
    /\ (sess_pc = "idle" /\ site_result = "False") => session_site = "None"

\* C28: after any sequence of constructor, authenticate, test_connection and
\* get_documents calls, get_documents issues its drives request and its folder
\* listings only when an access token and a resolved site_id are both set;
\* when one is missing it raises SharePointError and issues no request.
C28_ListingOnlyWhenConnected ==
    (op = "get_documents" /\ phase # "idle") =>
        LET connected == get_auth_headers(session_token) /\ has_site(session_site) IN
        /\ (drives_answer # <<>> \/ listed # <<>>) => connected
        /\ ~connected => /\ phase = "raised"
                         /\ ret = "SharePointError"
                         /\ drives_answer = <<>>
                         /\ listed = <<>>

C28_Witness ==
    /\ op = "get_documents"
    /\ phase = "raised"
    /\ drives_answer = <<>>
    /\ session_token = "token"
    /\ session_site = "None"

====
